---- MODULE Spec2Model ----
(***************************************************************************)
(* Minecraft MCP server. The repository holds two implementations: the     *)
(* package mcp/minecraft_mcp (tool tables, registry, handlers, HTTP client, *)
(* server.py) and the single-file script mcp/minecraft_mcp.py. Both are     *)
(* modelled: package import, list_tools, the two call_tool functions with   *)
(* what they dispatch to, the remote HTTP exchange, the yaw helper.         *)
(*                                                                         *)
(* Texts are sequences of fragments (TLA+ has no string concatenation): a  *)
(* Python f-string "Error {ctx}: {e}" is <<"Error ", ctx, ": ", e>>.       *)
(***************************************************************************)
EXTENDS Integers, Sequences, FiniteSets, TLC

VARIABLES
    import_state,   \* outcome of importing minecraft_mcp (tools/registry.py is executed by it)
    server,         \* the server process started: "none", "package" or "script"
    listed,         \* names returned by the last list_tools, <<>> before any
    calls,          \* number of call_tool invocations received
    last_call,      \* [name, arguments, remote] of the invocation in flight
    last_result,    \* the content blocks it returned
    last_shape,     \* what carried them: "content" (the list) or "CallToolResult"
    last_http,      \* HTTP requests it issued, in order
    last_handler,   \* handler function or method it invoked, None when none
    propagated,     \* TRUE once an exception has escaped call_tool
    prev_failed,    \* the invocation before this one returned an error text
    yaw_in,         \* argument of yaw_to_cardinal
    yaw_turns,      \* number of full turns added for the shifted evaluation
    yaw_norm,       \* the normalised yaw computed inside yaw_to_cardinal
    facing,         \* utils/helpers.py yaw_to_cardinal(yaw_in)
    facing_shifted, \* utils/helpers.py yaw_to_cardinal(yaw_in + 360 * yaw_turns)
    facing_legacy,  \* minecraft_mcp.py yaw_to_cardinal(yaw_in)
    conc_pc,        \* per concurrent invocation: "idle", "suspended" or "done"
    conc_call,      \* per concurrent invocation: its own [name, arguments]
    conc_request,   \* per concurrent invocation: the HTTP requests it issued
    conc_response,  \* per concurrent invocation: the remote's answer to its request
    conc_result,    \* per concurrent invocation: the content blocks it returned
    fn_called,      \* the function evaluated on its own: its name, None before any
    fn_args,        \* the arguments and the remote payload it was evaluated on
    fn_result       \* what it returned, per implementation

vars == <<import_state, server, listed, calls, last_call, last_result, last_shape,
          last_http, last_handler, propagated, prev_failed,
          yaw_in, yaw_turns, yaw_norm, facing, facing_shifted, facing_legacy,
          conc_pc, conc_call, conc_request, conc_response, conc_result,
          fn_called, fn_args, fn_result>>

call_vars == <<calls, last_call, last_result, last_shape, last_http, last_handler,
               propagated, prev_failed>>
yaw_vars == <<yaw_in, yaw_turns, yaw_norm, facing, facing_shifted, facing_legacy>>
conc_vars == <<conc_pc, conc_call, conc_request, conc_response, conc_result>>
fn_vars == <<fn_called, fn_args, fn_result>>
aux_vars == <<conc_vars, fn_vars>>

(***************************************************************************)
(* Bounds of the model                                                     *)
(***************************************************************************)
MaxCalls == 2
MaxYaw == 725
MaxTurns == 2
MaxTasks == 2

\* the invocations in progress at the same time
Tasks == 1..MaxTasks

\* Python's None
None == "None"

(***************************************************************************)
(* tools/schemas.py: the names of TOOL_SCHEMAS, in list order              *)
(***************************************************************************)
TOOL_SCHEMAS ==
    << "get_players", "get_entities", "spawn_entity",
       "get_blocks", "set_blocks", "get_blocks_chunk", "fill_box", "get_heightmap",
       "broadcast_message", "send_message_to_player",
       "place_nbt_structure", "place_door_line", "place_stairs",
       "place_window_pane_wall", "place_torch", "place_sign",
       "teleport_player", "test_server_connection",
       "create_build", "add_build_task", "add_build_task_single_block_set",
       "add_build_task_block_set", "add_build_task_block_fill",
       "add_build_task_prefab_door", "add_build_task_prefab_stairs",
       "add_build_task_prefab_window", "add_build_task_prefab_torch",
       "add_build_task_prefab_sign",
       "execute_build", "query_builds_by_location", "get_build_status" >>

Range(s) == { s[i] : i \in DOMAIN s }

SchemaNames == Range(TOOL_SCHEMAS)

(***************************************************************************)
(* handlers/*.py: the functions each handler module defines                *)
(***************************************************************************)
HandlerModules ==
    [ world    |-> { "handle_get_players", "handle_get_entities", "handle_spawn_entity" },
      blocks   |-> { "handle_get_blocks", "handle_set_blocks", "handle_get_blocks_chunk",
                     "handle_fill_box", "handle_get_heightmap" },
      messages |-> { "handle_broadcast_message", "handle_send_message_to_player" },
      prefabs  |-> { "handle_place_nbt_structure", "handle_place_door_line",
                     "handle_place_stairs", "handle_place_window_pane_wall",
                     "handle_place_torch", "handle_place_sign" },
      system   |-> { "handle_teleport_player", "handle_test_server_connection",
                     "handle_coordinate_conventions" },
      builds   |-> { "handle_add_build_task", "handle_create_build",
                     "handle_add_build_task_block_set", "handle_add_build_task_block_fill",
                     "handle_add_build_task_prefab_door", "handle_add_build_task_prefab_stairs",
                     "handle_add_build_task_prefab_window", "handle_add_build_task_prefab_torch",
                     "handle_add_build_task_prefab_sign", "handle_execute_build",
                     "handle_query_builds_by_location", "handle_get_build_status" } ]

(***************************************************************************)
(* tools/registry.py: the dict literal bound to TOOL_HANDLERS, as written: *)
(* key, module, attribute, in source order                                 *)
(***************************************************************************)
RegistryLiteral ==
    << <<"get_players", "world", "handle_get_players">>,
       <<"get_entities", "world", "handle_get_entities">>,
       <<"spawn_entity", "world", "handle_spawn_entity">>,
       <<"get_blocks", "blocks", "handle_get_blocks">>,
       <<"set_blocks", "blocks", "handle_set_blocks">>,
       <<"get_blocks_chunk", "blocks", "handle_get_blocks_chunk">>,
       <<"fill_box", "blocks", "handle_fill_box">>,
       <<"get_heightmap", "blocks", "handle_get_heightmap">>,
       <<"broadcast_message", "messages", "handle_broadcast_message">>,
       <<"send_message_to_player", "messages", "handle_send_message_to_player">>,
       <<"place_nbt_structure", "prefabs", "handle_place_nbt_structure">>,
       <<"place_door_line", "prefabs", "handle_place_door_line">>,
       <<"place_stairs", "prefabs", "handle_place_stairs">>,
       <<"place_window_pane_wall", "prefabs", "handle_place_window_pane_wall">>,
       <<"place_torch", "prefabs", "handle_place_torch">>,
       <<"place_sign", "prefabs", "handle_place_sign">>,
       <<"place_ladder", "prefabs", "handle_place_ladder">>,
       <<"teleport_player", "system", "handle_teleport_player">>,
       <<"test_server_connection", "system", "handle_test_server_connection">>,
       <<"get_coordinate_conventions", "system", "handle_coordinate_conventions">>,
       <<"create_build", "builds", "handle_create_build">>,
       <<"add_build_task", "builds", "handle_add_build_task">>,
       <<"add_build_task_single_block_set", "builds", "handle_add_build_task_single_block_set">>,
       <<"add_build_task_block_set", "builds", "handle_add_build_task_block_set">>,
       <<"add_build_task_block_fill", "builds", "handle_add_build_task_block_fill">>,
       <<"add_build_task_prefab_door", "builds", "handle_add_build_task_prefab_door">>,
       <<"add_build_task_prefab_stairs", "builds", "handle_add_build_task_prefab_stairs">>,
       <<"add_build_task_prefab_window", "builds", "handle_add_build_task_prefab_window">>,
       <<"add_build_task_prefab_torch", "builds", "handle_add_build_task_prefab_torch">>,
       <<"add_build_task_prefab_sign", "builds", "handle_add_build_task_prefab_sign">>,
       <<"add_build_task_prefab_ladder", "builds", "handle_add_build_task_prefab_ladder">>,
       <<"execute_build", "builds", "handle_execute_build">>,
       <<"query_builds_by_location", "builds", "handle_query_builds_by_location">>,
       <<"get_build_status", "builds", "handle_get_build_status">> >>

RegistryKeys == { RegistryLiteral[i][1] : i \in DOMAIN RegistryLiteral }

\* the attribute lookup module.attr of one entry succeeds
EntryResolves(e) == e[3] \in HandlerModules[e[2]]

\* Python evaluates the entries of the literal in order; the first attribute
\* that its module lacks raises AttributeError and TOOL_HANDLERS is never bound
RECURSIVE FirstUnresolved(_)
FirstUnresolved(i) ==
    IF i > Len(RegistryLiteral) THEN 0
    ELSE IF ~EntryResolves(RegistryLiteral[i]) THEN i
    ELSE FirstUnresolved(i + 1)

\* the dict the literal denotes: key -> handler function, for the entries
\* whose attribute exists
TOOL_HANDLERS ==
    [ k \in { RegistryLiteral[i][1] : i \in { j \in DOMAIN RegistryLiteral :
                                               EntryResolves(RegistryLiteral[j]) } }
        |-> (CHOOSE e \in Range(RegistryLiteral) : e[1] = k)[3] ]

\* tools/registry.py get_handler: TOOL_HANDLERS.get(tool_name)
get_handler(tool_name) ==
    IF tool_name \in DOMAIN TOOL_HANDLERS THEN TOOL_HANDLERS[tool_name] ELSE None

\* handlers/*.py: the parameters of each handler that have no default (api_client aside)
Required(h) ==
    CASE h = "handle_spawn_entity" -> {"entity_type", "x", "y", "z"}
      [] h = "handle_set_blocks" -> {"start_x", "start_y", "start_z", "blocks"}
      [] h = "handle_get_blocks_chunk" -> {"start_x", "start_y", "start_z", "size_x", "size_y", "size_z"}
      [] h = "handle_fill_box" -> {"x1", "y1", "z1", "x2", "y2", "z2", "block_type"}
      [] h = "handle_get_heightmap" -> {"x1", "z1", "x2", "z2"}
      [] h = "handle_broadcast_message" -> {"message"}
      [] h = "handle_send_message_to_player" -> {"message"}
      [] h = "handle_place_nbt_structure" -> {"nbt_file_data", "filename", "x", "y", "z"}
      [] h = "handle_place_door_line" -> {"start_x", "start_y", "start_z", "facing", "block_type"}
      [] h = "handle_place_stairs" -> {"start_x", "start_y", "start_z", "end_x", "end_y", "end_z", "block_type", "stair_type", "staircase_direction"}
      [] h = "handle_place_window_pane_wall" -> {"start_x", "start_y", "start_z", "end_x", "end_z", "height", "block_type"}
      [] h = "handle_place_torch" -> {"x", "y", "z", "block_type"}
      [] h = "handle_place_sign" -> {"x", "y", "z", "block_type"}
      [] h = "handle_teleport_player" -> {"player_name", "x", "y", "z"}
      [] h = "handle_create_build" -> {"name"}
      [] h = "handle_add_build_task_block_set" -> {"build_id", "start_x", "start_y", "start_z", "blocks"}
      [] h = "handle_add_build_task_block_fill" -> {"build_id", "x1", "y1", "z1", "x2", "y2", "z2", "block_type"}
      [] h = "handle_add_build_task_prefab_door" -> {"build_id", "start_x", "start_y", "start_z", "facing"}
      [] h = "handle_add_build_task_prefab_stairs" -> {"build_id", "start_x", "start_y", "start_z", "end_x", "end_y", "end_z", "staircase_direction"}
      [] h = "handle_add_build_task_prefab_window" -> {"build_id", "start_x", "start_y", "start_z", "end_x", "end_z", "height"}
      [] h = "handle_add_build_task_prefab_torch" -> {"build_id", "x", "y", "z"}
      [] h = "handle_add_build_task_prefab_sign" -> {"build_id", "x", "y", "z"}
      [] h = "handle_execute_build" -> {"build_id"}
      [] h = "handle_query_builds_by_location" -> {"min_x", "min_y", "min_z", "max_x", "max_y", "max_z"}
      [] h = "handle_get_build_status" -> {"build_id"}
      [] OTHER -> {}

\* handlers/*.py: the MinecraftAPIClient method each handler awaits
ClientMethod(h) ==
    CASE h = "handle_get_players" -> "get_players"
      [] h = "handle_get_entities" -> "get_entities"
      [] h = "handle_spawn_entity" -> "spawn_entity"
      [] h = "handle_get_blocks" -> "get_blocks"
      [] h = "handle_set_blocks" -> "set_blocks"
      [] h = "handle_get_blocks_chunk" -> "get_blocks_chunk"
      [] h = "handle_fill_box" -> "fill_box"
      [] h = "handle_get_heightmap" -> "get_heightmap"
      [] h = "handle_broadcast_message" -> "broadcast_message"
      [] h = "handle_send_message_to_player" -> "send_message_to_player"
      [] h = "handle_place_nbt_structure" -> "place_nbt_structure"
      [] h = "handle_place_door_line" -> "place_door_line"
      [] h = "handle_place_stairs" -> "place_stairs"
      [] h = "handle_place_window_pane_wall" -> "place_window_pane_wall"
      [] h = "handle_place_torch" -> "place_torch"
      [] h = "handle_place_sign" -> "place_sign"
      [] h = "handle_teleport_player" -> "teleport_player"
      [] h = "handle_test_server_connection" -> "test_connection"
      [] h = "handle_create_build" -> "create_build"
      [] h = "handle_add_build_task_block_set" -> "add_build_task"
      [] h = "handle_add_build_task_block_fill" -> "add_build_task"
      [] h = "handle_add_build_task_prefab_door" -> "add_build_task"
      [] h = "handle_add_build_task_prefab_stairs" -> "add_build_task"
      [] h = "handle_add_build_task_prefab_window" -> "add_build_task"
      [] h = "handle_add_build_task_prefab_torch" -> "add_build_task"
      [] h = "handle_add_build_task_prefab_sign" -> "add_build_task"
      [] h = "handle_execute_build" -> "execute_build"
      [] h = "handle_query_builds_by_location" -> "query_builds_by_location"
      [] h = "handle_get_build_status" -> "get_build_status"
      [] OTHER -> None

\* handlers/*.py: how many positional arguments the handler passes to that method
PassedArgs(h) ==
    CASE h = "handle_spawn_entity" -> 5
      [] h = "handle_set_blocks" -> 5
      [] h = "handle_get_blocks_chunk" -> 7
      [] h = "handle_fill_box" -> 9
      [] h = "handle_get_heightmap" -> 6
      [] h = "handle_broadcast_message" -> 2
      [] h = "handle_send_message_to_player" -> 4
      [] h = "handle_place_nbt_structure" -> 9
      [] h = "handle_place_door_line" -> 10
      [] h = "handle_place_stairs" -> 11
      [] h = "handle_place_window_pane_wall" -> 9
      [] h = "handle_place_torch" -> 6
      [] h = "handle_place_sign" -> 10
      [] h = "handle_teleport_player" -> 7
      [] h = "handle_create_build" -> 3
      [] h = "handle_add_build_task_block_set" -> 3
      [] h = "handle_add_build_task_block_fill" -> 3
      [] h = "handle_add_build_task_prefab_door" -> 3
      [] h = "handle_add_build_task_prefab_stairs" -> 3
      [] h = "handle_add_build_task_prefab_window" -> 3
      [] h = "handle_add_build_task_prefab_torch" -> 3
      [] h = "handle_add_build_task_prefab_sign" -> 3
      [] h = "handle_execute_build" -> 1
      [] h = "handle_query_builds_by_location" -> 8
      [] h = "handle_get_build_status" -> 1
      [] OTHER -> 0

\* client/minecraft_api.py: parameters without default of each client method (self aside)
ClientMinArgs(m) ==
    CASE m = "spawn_entity" -> 4
      [] m = "set_blocks" -> 4
      [] m = "get_blocks_chunk" -> 6
      [] m = "fill_box" -> 7
      [] m = "get_heightmap" -> 4
      [] m = "broadcast_message" -> 1
      [] m = "send_message_to_player" -> 1
      [] m = "place_nbt_structure" -> 5
      [] m = "place_door_line" -> 5
      [] m = "place_stairs" -> 9
      [] m = "place_window_pane_wall" -> 7
      [] m = "place_torch" -> 4
      [] m = "place_sign" -> 4
      [] m = "create_build" -> 1
      [] m = "add_build_task" -> 4
      [] m = "execute_build" -> 1
      [] m = "query_builds_by_location" -> 6
      [] m = "get_build_status" -> 1
      [] m = "teleport_player" -> 4
      [] OTHER -> 0

\* client/minecraft_api.py: all parameters of each client method (self aside)
ClientMaxArgs(m) ==
    CASE m = "spawn_entity" -> 5
      [] m = "set_blocks" -> 5
      [] m = "get_blocks_chunk" -> 7
      [] m = "fill_box" -> 8
      [] m = "get_heightmap" -> 6
      [] m = "broadcast_message" -> 2
      [] m = "send_message_to_player" -> 4
      [] m = "place_nbt_structure" -> 9
      [] m = "place_door_line" -> 10
      [] m = "place_stairs" -> 11
      [] m = "place_window_pane_wall" -> 9
      [] m = "place_torch" -> 6
      [] m = "place_sign" -> 10
      [] m = "create_build" -> 3
      [] m = "add_build_task" -> 4
      [] m = "execute_build" -> 1
      [] m = "query_builds_by_location" -> 8
      [] m = "get_build_status" -> 1
      [] m = "teleport_player" -> 7
      [] OTHER -> 0

\* client/minecraft_api.py: HTTP method of each client method
Verb(m) ==
    CASE m = "get_players" -> "GET"
      [] m = "get_entities" -> "GET"
      [] m = "get_blocks" -> "GET"
      [] m = "get_build_status" -> "GET"
      [] m = "test_connection" -> "GET"
      [] OTHER -> "POST"

\* client/minecraft_api.py: path of each client method, after base_url
Path(m) ==
    CASE m = "get_players" -> "/api/world/players"
      [] m = "get_entities" -> "/api/world/entities"
      [] m = "spawn_entity" -> "/api/world/entities/spawn"
      [] m = "get_blocks" -> "/api/world/blocks/list"
      [] m = "set_blocks" -> "/api/world/blocks/set"
      [] m = "get_blocks_chunk" -> "/api/world/blocks/chunk"
      [] m = "fill_box" -> "/api/world/blocks/fill"
      [] m = "get_heightmap" -> "/api/world/blocks/heightmap"
      [] m = "broadcast_message" -> "/api/message/broadcast"
      [] m = "send_message_to_player" -> "/api/message/player"
      [] m = "place_nbt_structure" -> "/api/prefab/nbt"
      [] m = "place_door_line" -> "/api/prefab/door"
      [] m = "place_stairs" -> "/api/prefab/stairs"
      [] m = "place_window_pane_wall" -> "/api/prefab/window"
      [] m = "place_torch" -> "/api/prefab/torch"
      [] m = "place_sign" -> "/api/prefab/sign"
      [] m = "create_build" -> "/api/builds"
      [] m = "add_build_task" -> "/api/builds/{build_id}/tasks"
      [] m = "execute_build" -> "/api/builds/{build_id}/execute"
      [] m = "query_builds_by_location" -> "/api/builds/query-location"
      [] m = "get_build_status" -> "/api/builds/{build_id}"
      [] m = "teleport_player" -> "/api/player/teleport"
      [] m = "test_connection" -> "/api/test"
      [] OTHER -> None

\* handlers/*.py: the context each handler gives format_error_response
Context(h) ==
    CASE h = "handle_get_players" -> "getting players"
      [] h = "handle_get_entities" -> "getting entities"
      [] h = "handle_spawn_entity" -> "spawning entity"
      [] h = "handle_get_blocks" -> "getting blocks"
      [] h = "handle_set_blocks" -> "setting blocks"
      [] h = "handle_get_blocks_chunk" -> "getting block chunk"
      [] h = "handle_fill_box" -> "filling box"
      [] h = "handle_get_heightmap" -> "getting heightmap"
      [] h = "handle_broadcast_message" -> "broadcasting message"
      [] h = "handle_send_message_to_player" -> "sending message to player"
      [] h = "handle_place_nbt_structure" -> "placing NBT structure"
      [] h = "handle_place_door_line" -> "placing doors"
      [] h = "handle_place_stairs" -> "placing stairs"
      [] h = "handle_place_window_pane_wall" -> "placing window panes"
      [] h = "handle_place_torch" -> "placing torch"
      [] h = "handle_place_sign" -> "placing sign"
      [] h = "handle_teleport_player" -> "teleporting player"
      [] h = "handle_test_server_connection" -> "testing server connection"
      [] h = "handle_create_build" -> "creating build"
      [] h = "handle_add_build_task_block_set" -> "adding build task"
      [] h = "handle_add_build_task_block_fill" -> "adding build task"
      [] h = "handle_add_build_task_prefab_door" -> "adding build task"
      [] h = "handle_add_build_task_prefab_stairs" -> "adding build task"
      [] h = "handle_add_build_task_prefab_window" -> "adding build task"
      [] h = "handle_add_build_task_prefab_torch" -> "adding build task"
      [] h = "handle_add_build_task_prefab_sign" -> "adding build task"
      [] h = "handle_execute_build" -> "executing build"
      [] h = "handle_query_builds_by_location" -> "querying builds by location"
      [] h = "handle_get_build_status" -> "getting build status"
      [] OTHER -> ""

\* handlers/*.py: the operation named by "Failed to ..." when success is false
FailLabel(h) ==
    CASE h = "handle_spawn_entity" -> "spawn entity"
      [] h = "handle_set_blocks" -> "set blocks"
      [] h = "handle_get_blocks_chunk" -> "get blocks"
      [] h = "handle_fill_box" -> "fill box"
      [] h = "handle_get_heightmap" -> "get heightmap"
      [] h = "handle_broadcast_message" -> "broadcast message"
      [] h = "handle_send_message_to_player" -> "send message"
      [] h = "handle_place_nbt_structure" -> "place NBT structure"
      [] h = "handle_place_door_line" -> "place doors"
      [] h = "handle_place_stairs" -> "place stairs"
      [] h = "handle_place_window_pane_wall" -> "place window panes"
      [] h = "handle_place_torch" -> "place torch"
      [] h = "handle_place_sign" -> "place sign"
      [] h = "handle_teleport_player" -> "teleport player"
      [] h = "handle_create_build" -> "create build"
      [] h = "handle_add_build_task_block_set" -> "add task"
      [] h = "handle_add_build_task_block_fill" -> "add task"
      [] h = "handle_add_build_task_prefab_door" -> "add task"
      [] h = "handle_add_build_task_prefab_stairs" -> "add task"
      [] h = "handle_add_build_task_prefab_window" -> "add task"
      [] h = "handle_add_build_task_prefab_torch" -> "add task"
      [] h = "handle_add_build_task_prefab_sign" -> "add task"
      [] h = "handle_execute_build" -> "execute build"
      [] h = "handle_query_builds_by_location" -> "query builds"
      [] h = "handle_get_build_status" -> "get build status"
      [] OTHER -> None

\* handlers/*.py: what follows it: the whole payload, or its error field
FailDetail(h) ==
    CASE h = "handle_create_build" -> "error"
      [] h = "handle_add_build_task_block_set" -> "error"
      [] h = "handle_add_build_task_block_fill" -> "error"
      [] h = "handle_add_build_task_prefab_door" -> "error"
      [] h = "handle_add_build_task_prefab_stairs" -> "error"
      [] h = "handle_add_build_task_prefab_window" -> "error"
      [] h = "handle_add_build_task_prefab_torch" -> "error"
      [] h = "handle_add_build_task_prefab_sign" -> "error"
      [] h = "handle_execute_build" -> "error"
      [] h = "handle_query_builds_by_location" -> "error"
      [] h = "handle_get_build_status" -> "error"
      [] OTHER -> "result"

(***************************************************************************)
(* Texts. The three emoji of the source are written by code point.         *)
(***************************************************************************)
CheckMark == "U+2705"
CrossMark == "U+274C"
WarnMark == "U+26A0"

\* mcp.types.TextContent(type="text", text=...)
TextContent(text) == [type |-> "text", text |-> text]

\* the .content of CallToolResult(content=[TextContent(type="text", text=...)])
CallToolResult(text) == << TextContent(text) >>

\* utils/formatting.py
format_success_response(text) == CallToolResult(text)

format_error_response(error, context) ==
    IF context # ""
    THEN CallToolResult(<<"Error ", context, ": ">> \o error)
    ELSE CallToolResult(<<"Error connecting to Minecraft API: ">> \o error)

format_validation_error(message) == CallToolResult(<<CrossMark, " ">> \o message)

(***************************************************************************)
(* Python values and calls                                                 *)
(***************************************************************************)
\* truthiness of an Optional[str]
Truthy(v) == v \notin {None, ""}

\* keyword argument p of **arguments, or the parameter's default
Arg(arguments, p, default) == IF p \in DOMAIN arguments THEN arguments[p] ELSE default

\* how a call ends: a value returned, or an exception raised
Returned(content, http) ==
    [raised |-> FALSE, exc |-> None, msg |-> <<>>, payload |-> None,
     content |-> content, http |-> http]

Raised(exc, msg, http) ==
    [raised |-> TRUE, exc |-> exc, msg |-> msg, payload |-> None,
     content |-> <<>>, http |-> http]

\* json.JSONDecodeError is a subclass of ValueError
IsValueError(exc) == exc \in {"ValueError", "JSONDecodeError"}

(***************************************************************************)
(* The remote server. Each behaviour is what one request meets:            *)
(*   success        2xx, the body the handler expects, its flag true       *)
(*   success_bare   2xx, {"success": true} and nothing else                *)
(*   failure_error  2xx, {"success": false, "error": "out of bounds"}      *)
(*   failure_bare   2xx, {"success": false}                                *)
(*   empty          2xx, {}                                                *)
(*   status_500     a non-2xx status: raise_for_status raises              *)
(*   connect_error  httpx.ConnectError                                     *)
(*   timeout        httpx.TimeoutException                                 *)
(*   malformed      2xx, a body that is not JSON: response.json() raises   *)
(***************************************************************************)
RemoteBehaviours ==
    { "success", "success_bare", "failure_error", "failure_bare", "empty",
      "status_500", "connect_error", "timeout", "malformed" }

PayloadSuccess(payload) == payload \in {"success", "success_bare"}

\* str(result) of a payload
PayloadRepr(payload) ==
    CASE payload = "failure_error" -> <<"{'success': False, 'error': '", "out of bounds", "'}">>
      [] payload = "failure_bare" -> <<"{'success': False}">>
      [] payload = "success_bare" -> <<"{'success': True}">>
      [] payload = "empty" -> <<"{}">>
      [] OTHER -> <<"{'success': True, ...}">>

\* result['<field>'] of the full success payload a set_blocks request is
\* answered with: {"success": true, "blocks_set": 42, "blocks_skipped": 3,
\* "world": "minecraft:overworld"}
PayloadField(payload, field) ==
    CASE field = "blocks_set" -> "42"
      [] field = "blocks_skipped" -> "3"
      [] field = "world" -> "minecraft:overworld"

\* result.get('error', 'Unknown error')
PayloadError(payload) ==
    IF payload = "failure_error" THEN "out of bounds" ELSE "Unknown error"

\* a request issued without a timeout argument
NoTimeout == 0

\* a JSON body that has no such field
NoField == "no field"

\* the exchange, were a request that fails or is answered success false sent
\* a second time
HttpExchange_retrying(verb, path, timeout, remote) ==
    LET req == [verb |-> verb, path |-> path, timeout |-> timeout,
                world |-> NoField, task_type |-> NoField]
        http == IF remote \in {"success", "success_bare"} THEN <<req>> ELSE <<req, req>>
    IN
    CASE remote = "connect_error" ->
            Raised("ConnectError", <<"All connection attempts failed">>, http)
      [] remote = "timeout" ->
            Raised("TimeoutException", <<"timed out">>, http)
      [] remote = "status_500" ->
            Raised("HTTPStatusError", <<"Server error '500 Internal Server Error'">>, http)
      [] remote = "malformed" ->
            Raised("JSONDecodeError", <<"Expecting value: line 1 column 1 (char 0)">>, http)
      [] OTHER ->
            [raised |-> FALSE, exc |-> None, msg |-> <<>>, payload |-> remote,
             content |-> <<>>, http |-> http]

\* client/minecraft_api.py and minecraft_mcp.py, the exchange every method performs:
\*   async with httpx.AsyncClient() as client:
\*       response = await client.<verb>(f"{self.base_url}<path>", ...)
\*       response.raise_for_status()
\*       return response.json()
HttpExchange(verb, path, timeout, remote) ==
    LET http == << [verb |-> verb, path |-> path, timeout |-> timeout,
                    world |-> NoField, task_type |-> NoField] >> IN
    CASE remote = "connect_error" ->
            Raised("ConnectError", <<"All connection attempts failed">>, http)
      [] remote = "timeout" ->
            Raised("TimeoutException", <<"timed out">>, http)
      [] remote = "status_500" ->
            Raised("HTTPStatusError", <<"Server error '500 Internal Server Error'">>, http)
      [] remote = "malformed" ->
            Raised("JSONDecodeError", <<"Expecting value: line 1 column 1 (char 0)">>, http)
      [] OTHER ->
            [raised |-> FALSE, exc |-> None, msg |-> <<>>, payload |-> remote,
             content |-> <<>>, http |-> http]

\* a method of MinecraftAPIClient: no timeout argument is given to any request
Exchange(m, remote) == HttpExchange(Verb(m), Path(m), NoTimeout, remote)

\* the outcome r of an exchange whose JSON body carried world w
WithWorld(r, w) ==
    [r EXCEPT !.http = [i \in DOMAIN r.http |-> [r.http[i] EXCEPT !.world = w]]]

\* the outcome r of an exchange whose JSON body carried task_type t
WithTaskType(r, t) ==
    [r EXCEPT !.http = [i \in DOMAIN r.http |-> [r.http[i] EXCEPT !.task_type = t]]]

\* handlers/builds.py: the discriminator each task-specific handler passes to
\* api_client.add_build_task, which puts it in the body as task_type
TaskType(h) ==
    CASE h = "handle_add_build_task_block_set" -> "BLOCK_SET"
      [] h = "handle_add_build_task_block_fill" -> "BLOCK_FILL"
      [] h = "handle_add_build_task_prefab_door" -> "PREFAB_DOOR"
      [] h = "handle_add_build_task_prefab_stairs" -> "PREFAB_STAIRS"
      [] h = "handle_add_build_task_prefab_window" -> "PREFAB_WINDOW"
      [] h = "handle_add_build_task_prefab_torch" -> "PREFAB_TORCH"
      [] h = "handle_add_build_task_prefab_sign" -> "PREFAB_SIGN"
      [] OTHER -> NoField

\* client/minecraft_api.py: the methods that take a world parameter
WorldMethods ==
    { "spawn_entity", "set_blocks", "get_blocks_chunk", "fill_box", "get_heightmap",
      "place_nbt_structure", "place_door_line", "place_stairs",
      "place_window_pane_wall", "place_torch", "place_sign",
      "create_build", "query_builds_by_location" }

\* client/minecraft_api.py, in each of them:
\*   if world:
\*       payload["world"] = world
BodyWorld(m, arguments) ==
    IF m \in WorldMethods /\ Truthy(Arg(arguments, "world", None))
    THEN arguments["world"]
    ELSE NoField

\* await api_client.<method>(<positional arguments>) as handler h writes it:
\* Python binds the arguments to the method's parameters before its body runs
client_call(h, remote) ==
    LET m == ClientMethod(h) IN
    IF PassedArgs(h) < ClientMinArgs(m)
    THEN Raised("TypeError", <<m, "() missing required positional arguments">>, <<>>)
    ELSE IF PassedArgs(h) > ClientMaxArgs(m)
    THEN Raised("TypeError", <<m, "() takes fewer positional arguments than were given">>, <<>>)
    ELSE Exchange(m, remote)

(***************************************************************************)
(* handlers/*.py                                                           *)
(***************************************************************************)
\* the first payload field a handler reads with result[...] once success is
\* true (a KeyError when the field is missing), None when it reads none
MandatoryField(h) ==
    CASE h = "handle_spawn_entity" -> "uuid"
      [] h = "handle_set_blocks" -> "blocks_set"
      [] h = "handle_fill_box" -> "blocks_set"
      [] h = "handle_create_build" -> "build"
      [] h \in { "handle_add_build_task_block_set", "handle_add_build_task_block_fill",
                 "handle_add_build_task_prefab_door", "handle_add_build_task_prefab_stairs",
                 "handle_add_build_task_prefab_window", "handle_add_build_task_prefab_torch",
                 "handle_add_build_task_prefab_sign" } -> "task"
      [] h = "handle_execute_build" -> "message"
      [] h = "handle_query_builds_by_location" -> "builds"
      [] h = "handle_get_build_status" -> "build"
      [] OTHER -> None

\* the text a handler returns when success is true, up to its first
\* interpolated value
SuccessText(h) ==
    CASE h = "handle_spawn_entity" -> <<CheckMark, " Successfully ", "spawned">>
      [] h = "handle_set_blocks" -> <<CheckMark, " Successfully ", "set">>
      [] h = "handle_fill_box" -> <<CheckMark, " Successfully ", "filled">>
      [] h = "handle_broadcast_message" -> <<CheckMark, " Successfully ", "broadcast message to all players in">>
      [] h = "handle_send_message_to_player" -> <<CheckMark, " Successfully ", "sent message to player">>
      [] h = "handle_place_nbt_structure" -> <<CheckMark, " Successfully ", "placed", " ", "NBT structure">>
      [] h = "handle_place_door_line" -> <<CheckMark, " Successfully ", "placed">>
      [] h = "handle_place_stairs" -> <<CheckMark, " Successfully ", "built staircase with">>
      [] h = "handle_place_window_pane_wall" -> <<CheckMark, " Successfully ", "placed">>
      [] h = "handle_place_torch" -> <<CheckMark, " Successfully ", "placed">>
      [] h = "handle_place_sign" -> <<CheckMark, " Successfully ", "placed">>
      [] h = "handle_teleport_player" -> <<CheckMark, " Successfully ", "teleported">>
      [] h = "handle_create_build" -> <<CheckMark, " Successfully ", "created build">>
      [] h = "handle_add_build_task_block_set" -> <<CheckMark, " Successfully ", "added BLOCK_SET task to build\n">>
      [] h = "handle_add_build_task_block_fill" -> <<CheckMark, " Successfully ", "added BLOCK_FILL task to build\n">>
      [] h = "handle_add_build_task_prefab_door" -> <<CheckMark, " Successfully ", "added PREFAB_DOOR task to build\n">>
      [] h = "handle_add_build_task_prefab_stairs" -> <<CheckMark, " Successfully ", "added PREFAB_STAIRS task to build\n">>
      [] h = "handle_add_build_task_prefab_window" -> <<CheckMark, " Successfully ", "added PREFAB_WINDOW task to build\n">>
      [] h = "handle_add_build_task_prefab_torch" -> <<CheckMark, " Successfully ", "added PREFAB_TORCH task to build\n">>
      [] h = "handle_add_build_task_prefab_sign" -> <<CheckMark, " Successfully ", "added PREFAB_SIGN task to build\n">>
      [] h = "handle_get_players" -> <<"**Online Players:**\n">>
      [] h = "handle_get_entities" -> <<"**Available Entity Types (">>
      [] h = "handle_get_blocks" -> <<"**Available Block Types (">>
      [] h = "handle_get_blocks_chunk" -> <<"json.dumps(result, indent=2)">>
      [] h = "handle_get_heightmap" -> <<"**Heightmap Data (">>
      [] h = "handle_execute_build" -> <<"Executed build ">>
      [] h = "handle_query_builds_by_location" -> <<"**Found ">>
      [] h = "handle_get_build_status" -> <<"**Build Status: ">>
      [] OTHER -> <<>>

\* f"... Failed to <operation>: {result}" or {result.get('error', 'Unknown error')}
FailureText(h, payload) ==
    <<CrossMark, " Failed to ", FailLabel(h), ": ">>
        \o (IF FailDetail(h) = "error" THEN <<PayloadError(payload)>> ELSE PayloadRepr(payload))

\* handlers/builds.py handle_add_build_task: the text of the deprecated stub
DEPRECATION_TEXT ==
    << CrossMark, " This tool is deprecated. Please use one of the following specific tools instead:\n",
       "- ", "add_build_task_block_set", ": For setting blocks\n",
       "- ", "add_build_task_block_fill", ": For filling areas\n",
       "- ", "add_build_task_prefab_door", ": For placing doors\n",
       "- ", "add_build_task_prefab_stairs", ": For placing stairs\n",
       "- ", "add_build_task_prefab_window", ": For placing windows\n",
       "- ", "add_build_task_prefab_torch", ": For placing torches\n",
       "- ", "add_build_task_prefab_sign", ": For placing signs" >>

\* handlers/builds.py handle_add_build_task: the arguments are ignored and the
\* client is never touched
handle_add_build_task(arguments, remote) ==
    Returned(CallToolResult(DEPRECATION_TEXT), <<>>)

\* handlers/system.py handle_coordinate_conventions
handle_coordinate_conventions(arguments, remote) ==
    Returned(CallToolResult(<<"coordinate_info_blurb">>), <<>>)

\* handlers/world.py handle_get_players, handle_get_entities and
\* handlers/blocks.py handle_get_blocks: the payload is used as a list. A
\* dict payload makes the loop body or the slice raise; handle_get_players
\* does not enter its loop on {}
handle_list(h, arguments, remote) ==
    LET r == Exchange(ClientMethod(h), remote) IN
    IF r.raised THEN Returned(format_error_response(r.msg, Context(h)), r.http)
    ELSE IF r.payload = "success" \/ (r.payload = "empty" /\ h = "handle_get_players")
    THEN Returned(format_success_response(SuccessText(h)), r.http)
    ELSE IF h = "handle_get_players"
    THEN Returned(format_error_response(<<"string indices must be integers">>, Context(h)), r.http)
    ELSE Returned(format_error_response(<<"unhashable type: 'slice'">>, Context(h)), r.http)

\* handlers/system.py handle_test_server_connection
handle_test_server_connection(arguments, remote) ==
    LET r == Exchange("test_connection", remote) IN
    IF r.raised
    THEN CASE r.exc = "ConnectError" ->
                Returned(CallToolResult(<<CrossMark,
                    " Cannot connect to Minecraft server - server is OFFLINE or not running">>), r.http)
           [] r.exc = "TimeoutException" ->
                Returned(CallToolResult(<<CrossMark,
                    " Connection to Minecraft server timed out">>), r.http)
           [] OTHER ->
                Returned(format_error_response(r.msg, "testing server connection"), r.http)
    ELSE IF r.payload # "empty"
    THEN Returned(CallToolResult(<<CheckMark,
                    " Minecraft server is ONLINE and responding correctly">>), r.http)
    ELSE Returned(CallToolResult(<<WarnMark,
                    " Minecraft server responded but with unexpected content">>), r.http)

\* client/minecraft_api.py send_message_to_player: the method raises before
\* any request when neither identifier is given
api_send_message_to_player(player_uuid, player_name, remote) ==
    IF ~Truthy(player_uuid) /\ ~Truthy(player_name)
    THEN Raised("ValueError", <<"Must provide either player_uuid or player_name">>, <<>>)
    ELSE Exchange("send_message_to_player", remote)

\* handlers/messages.py handle_send_message_to_player with neither its own
\* check of the identifiers nor the client's: the request is posted as given
handle_send_message_to_player_unchecked(arguments, remote) ==
    LET r == Exchange("send_message_to_player", remote) IN
    IF r.raised
    THEN IF IsValueError(r.exc)
         THEN Returned(format_validation_error(r.msg), r.http)
         ELSE Returned(format_error_response(r.msg, "sending message to player"), r.http)
    ELSE IF PayloadSuccess(r.payload)
    THEN Returned(format_success_response(SuccessText("handle_send_message_to_player")), r.http)
    ELSE Returned(CallToolResult(FailureText("handle_send_message_to_player", r.payload)), r.http)

\* handlers/messages.py handle_send_message_to_player
handle_send_message_to_player(arguments, remote) ==
    LET player_uuid == Arg(arguments, "player_uuid", None)
        player_name == Arg(arguments, "player_name", None)
    IN
    IF ~Truthy(player_uuid) /\ ~Truthy(player_name)
    THEN Returned(format_validation_error(
                    <<"Must provide either player_uuid or player_name">>), <<>>)
    ELSE LET r == api_send_message_to_player(player_uuid, player_name, remote) IN
         IF r.raised
         THEN IF IsValueError(r.exc)
              THEN Returned(format_validation_error(r.msg), r.http)
              ELSE Returned(format_error_response(r.msg, "sending message to player"), r.http)
         ELSE IF PayloadSuccess(r.payload)
         THEN Returned(format_success_response(SuccessText("handle_send_message_to_player")), r.http)
         ELSE Returned(CallToolResult(FailureText("handle_send_message_to_player", r.payload)), r.http)

\* handle_set_blocks with the counts and the world taken from the call's own
\* arguments instead of the payload
set_blocks_detail_from_arguments(arguments, payload) ==
    << " ", "1", " blocks (skipped ", "0", ") in world ",
       Arg(arguments, "world", "minecraft:overworld") >>

\* handlers/blocks.py handle_set_blocks, the rest of its success text:
\* f"... set {result['blocks_set']} blocks (skipped {result['blocks_skipped']}) in world {result['world']}"
set_blocks_detail(arguments, payload) ==
    << " ", PayloadField(payload, "blocks_set"),
       " blocks (skipped ", PayloadField(payload, "blocks_skipped"),
       ") in world ", PayloadField(payload, "world") >>

\* what follows SuccessText(h) in the success text of handler h
SuccessDetail(h, arguments, payload) ==
    IF h = "handle_set_blocks" THEN set_blocks_detail(arguments, payload) ELSE <<>>

\* every other handler:
\*   try:
\*       result = await api_client.<method>(...)
\*       if result.get("success"): <success text, reading the payload>
\*       else: <failure text>
\*   except Exception as e:
\*       return format_error_response(e, "<context>")
handle_flag(h, arguments, remote) ==
    LET r == WithTaskType(WithWorld(client_call(h, remote),
                                    BodyWorld(ClientMethod(h), arguments)),
                          TaskType(h)) IN
    IF r.raised THEN Returned(format_error_response(r.msg, Context(h)), r.http)
    ELSE IF PayloadSuccess(r.payload)
    THEN IF r.payload = "success_bare" /\ MandatoryField(h) # None
         THEN Returned(format_error_response(<<"'", MandatoryField(h), "'">>, Context(h)), r.http)
         ELSE Returned(format_success_response(
                        SuccessText(h) \o SuccessDetail(h, arguments, r.payload)), r.http)
    ELSE Returned(CallToolResult(FailureText(h, r.payload)), r.http)

\* the body of handler h
HandlerBody(h, arguments, remote) ==
    CASE h = "handle_add_build_task" -> handle_add_build_task(arguments, remote)
      [] h = "handle_coordinate_conventions" -> handle_coordinate_conventions(arguments, remote)
      [] h = "handle_test_server_connection" -> handle_test_server_connection(arguments, remote)
      [] h = "handle_send_message_to_player" -> handle_send_message_to_player(arguments, remote)
      [] h \in {"handle_get_players", "handle_get_entities", "handle_get_blocks"} ->
            handle_list(h, arguments, remote)
      [] OTHER -> handle_flag(h, arguments, remote)

\* mutant of Invoke: a parameter without an argument is bound to None and
\* the body runs
Invoke_defaulting(h, arguments, remote) ==
    HandlerBody(h, [p \in DOMAIN arguments \cup Required(h) |->
                       IF p \in DOMAIN arguments THEN arguments[p] ELSE None], remote)

\* handler(api_client, **arguments): Python binds the keywords to the
\* handler's parameters before its body, and so outside its try. Every
\* handler ends its parameters with **arguments, so no keyword is unexpected
Invoke(h, arguments, remote) ==
    IF Required(h) \ DOMAIN arguments # {}
    THEN Raised("TypeError", <<h, "() missing required positional argument">>, <<>>)
    ELSE HandlerBody(h, arguments, remote)

(***************************************************************************)
(* server.py                                                               *)
(***************************************************************************)
\* list_tools: return TOOL_SCHEMAS
list_tools == TOOL_SCHEMAS

\* call_tool without the test of handler against None: None is called
call_tool_unchecked(name, arguments, remote) ==
    LET handler == get_handler(name) IN
    IF handler = None
    THEN [raised |-> FALSE, http |-> <<>>, handler |-> None, shape |-> "content",
          content |-> CallToolResult(<<"Error: ", "'NoneType' object is not callable">>)]
    ELSE LET result == Invoke(handler, arguments, remote) IN
         IF result.raised
         THEN [raised |-> FALSE, http |-> result.http, handler |-> handler, shape |-> "content",
               content |-> CallToolResult(<<"Error: ">> \o result.msg)]
         ELSE [raised |-> FALSE, http |-> result.http, handler |-> handler, shape |-> "content",
               content |-> result.content]

\* call_tool
call_tool(name, arguments, remote) ==
    LET handler == get_handler(name) IN
    IF handler = None
    THEN [raised |-> FALSE, http |-> <<>>, handler |-> None, shape |-> "content",
          content |-> CallToolResult(<<"Error: ", "Unknown tool: ", name>>)]
    ELSE LET result == Invoke(handler, arguments, remote) IN
         IF result.raised
         THEN [raised |-> FALSE, http |-> result.http, handler |-> handler, shape |-> "content",
               content |-> CallToolResult(<<"Error: ">> \o result.msg)]
         ELSE [raised |-> FALSE, http |-> result.http, handler |-> handler, shape |-> "content",
               content |-> result.content]

(***************************************************************************)
(* minecraft_mcp.py: the single-file server, run as a script               *)
(***************************************************************************)
\* minecraft_mcp.py call_tool: the names its if/elif chain compares, in order
LEGACY_TOOLS ==
    << "get_players", "get_entities", "spawn_entity",
       "get_blocks", "set_blocks", "get_blocks_chunk",
       "fill_box", "broadcast_message", "send_message_to_player",
       "get_heightmap", "place_nbt_structure", "place_door_line",
       "place_stairs", "place_window_pane_wall", "place_torch",
       "place_sign", "teleport_player", "test_server_connection",
       "create_build", "add_build_task", "execute_build",
       "query_builds_by_location", "get_build_status" >>

\* minecraft_mcp.py call_tool: the branches that call self.<name>() without **arguments
LegacyIgnoresArguments ==
    {"get_players", "get_entities", "get_blocks", "test_server_connection"}

\* minecraft_mcp.py: the parameters of each method that have no default (self aside)
LegacyRequired(t) ==
    CASE t = "spawn_entity" -> {"entity_type", "x", "y", "z"}
      [] t = "set_blocks" -> {"start_x", "start_y", "start_z", "blocks"}
      [] t = "get_blocks_chunk" -> {"start_x", "start_y", "start_z", "size_x", "size_y", "size_z"}
      [] t = "fill_box" -> {"x1", "y1", "z1", "x2", "y2", "z2", "block_type"}
      [] t = "broadcast_message" -> {"message"}
      [] t = "send_message_to_player" -> {"message"}
      [] t = "get_heightmap" -> {"x1", "z1", "x2", "z2"}
      [] t = "place_nbt_structure" -> {"nbt_file_data", "filename", "x", "y", "z"}
      [] t = "place_door_line" -> {"start_x", "start_y", "start_z", "facing", "block_type"}
      [] t = "place_stairs" -> {"start_x", "start_y", "start_z", "end_x", "end_y", "end_z", "block_type", "stair_type", "staircase_direction"}
      [] t = "place_window_pane_wall" -> {"start_x", "start_y", "start_z", "end_x", "end_z", "height", "block_type"}
      [] t = "place_torch" -> {"x", "y", "z", "block_type"}
      [] t = "place_sign" -> {"x", "y", "z", "block_type"}
      [] t = "teleport_player" -> {"player_name", "x", "y", "z"}
      [] t = "create_build" -> {"name"}
      [] t = "add_build_task" -> {"build_id", "task_type", "task_data"}
      [] t = "execute_build" -> {"build_id"}
      [] t = "query_builds_by_location" -> {"min_x", "min_y", "min_z", "max_x", "max_y", "max_z"}
      [] t = "get_build_status" -> {"build_id"}
      [] OTHER -> {}

\* minecraft_mcp.py: the parameters of each method that have a default
LegacyOptional(t) ==
    CASE t = "spawn_entity" -> {"world"}
      [] t = "set_blocks" -> {"world"}
      [] t = "get_blocks_chunk" -> {"world"}
      [] t = "fill_box" -> {"world"}
      [] t = "broadcast_message" -> {"action_bar"}
      [] t = "send_message_to_player" -> {"player_uuid", "player_name", "action_bar"}
      [] t = "get_heightmap" -> {"heightmap_type", "world"}
      [] t = "place_nbt_structure" -> {"world", "rotation", "include_entities", "replace_blocks"}
      [] t = "place_door_line" -> {"width", "hinge", "double_doors", "open", "world"}
      [] t = "place_stairs" -> {"fill_support", "world"}
      [] t = "place_window_pane_wall" -> {"waterlogged", "world"}
      [] t = "place_torch" -> {"facing", "world"}
      [] t = "place_sign" -> {"front_lines", "back_lines", "facing", "rotation", "glowing", "world"}
      [] t = "teleport_player" -> {"dimension", "yaw", "pitch"}
      [] t = "create_build" -> {"description", "world"}
      [] t = "query_builds_by_location" -> {"world", "include_in_progress"}
      [] OTHER -> {}

\* minecraft_mcp.py: HTTP method of the request each method issues
LegacyVerb(t) ==
    CASE t = "get_players" -> "GET"
      [] t = "get_entities" -> "GET"
      [] t = "get_blocks" -> "GET"
      [] t = "test_server_connection" -> "GET"
      [] t = "get_build_status" -> "GET"
      [] OTHER -> "POST"

\* minecraft_mcp.py: its path, after api_base
LegacyPath(t) ==
    CASE t = "get_players" -> "/api/world/players"
      [] t = "get_entities" -> "/api/world/entities"
      [] t = "spawn_entity" -> "/api/world/entities/spawn"
      [] t = "get_blocks" -> "/api/world/blocks/list"
      [] t = "set_blocks" -> "/api/world/blocks/set"
      [] t = "get_blocks_chunk" -> "/api/world/blocks/chunk"
      [] t = "fill_box" -> "/api/world/blocks/fill"
      [] t = "broadcast_message" -> "/api/message/broadcast"
      [] t = "send_message_to_player" -> "/api/message/player"
      [] t = "get_heightmap" -> "/api/world/blocks/heightmap"
      [] t = "place_nbt_structure" -> "/api/world/structure/place"
      [] t = "place_door_line" -> "/api/world/prefabs/door"
      [] t = "place_stairs" -> "/api/world/prefabs/stairs"
      [] t = "place_window_pane_wall" -> "/api/world/prefabs/window-pane"
      [] t = "place_torch" -> "/api/world/prefabs/torch"
      [] t = "place_sign" -> "/api/world/prefabs/sign"
      [] t = "teleport_player" -> "/api/players/teleport"
      [] t = "test_server_connection" -> "/"
      [] t = "create_build" -> "/api/builds"
      [] t = "add_build_task" -> "/api/builds/{build_id}/tasks"
      [] t = "execute_build" -> "/api/builds/{build_id}/execute"
      [] t = "query_builds_by_location" -> "/api/builds/query-location"
      [] t = "get_build_status" -> "/api/builds/{build_id}"
      [] OTHER -> None

\* minecraft_mcp.py: the timeout in seconds given to the request, 0 when none is given
LegacyTimeout(t) ==
    CASE t = "place_nbt_structure" -> 60
      [] t = "test_server_connection" -> 5
      [] t = "execute_build" -> 120
      [] OTHER -> 0

\* minecraft_mcp.py: the first payload field each method reads with result[...] once the flag is true
LegacyMandatoryField(t) ==
    CASE t = "spawn_entity" -> "position"
      [] t = "set_blocks" -> "blocks_set"
      [] t = "get_blocks_chunk" -> "blocks"
      [] t = "fill_box" -> "box_bounds"
      [] t = "broadcast_message" -> "playerCount"
      [] t = "get_heightmap" -> "area_bounds"
      [] t = "place_nbt_structure" -> "position"
      [] t = "place_door_line" -> "doors_placed"
      [] t = "place_stairs" -> "blocks_placed"
      [] t = "place_window_pane_wall" -> "panes_placed"
      [] t = "place_torch" -> "position"
      [] t = "place_sign" -> "position"
      [] t = "teleport_player" -> "playerName"
      [] t = "create_build" -> "build"
      [] t = "add_build_task" -> "task"
      [] t = "execute_build" -> "tasksExecuted"
      [] t = "query_builds_by_location" -> "builds"
      [] t = "get_build_status" -> "build"
      [] OTHER -> None

\* minecraft_mcp.py: the operation named by "Failed to ..." when the flag is false
LegacyFailLabel(t) ==
    CASE t = "spawn_entity" -> "spawn entity"
      [] t = "set_blocks" -> "set blocks"
      [] t = "get_blocks_chunk" -> "get blocks"
      [] t = "fill_box" -> "fill box"
      [] t = "broadcast_message" -> "broadcast message"
      [] t = "send_message_to_player" -> "send message"
      [] t = "get_heightmap" -> "get heightmap"
      [] t = "place_nbt_structure" -> "place structure"
      [] t = "place_door_line" -> "place doors"
      [] t = "place_stairs" -> "build staircase"
      [] t = "place_window_pane_wall" -> "place window pane wall"
      [] t = "place_torch" -> "place torch"
      [] t = "place_sign" -> "place sign"
      [] t = "teleport_player" -> "teleport player"
      [] t = "create_build" -> "create build"
      [] t = "add_build_task" -> "add task"
      [] t = "execute_build" -> "execute build"
      [] t = "query_builds_by_location" -> "query builds"
      [] t = "get_build_status" -> "get build status"
      [] OTHER -> None

\* minecraft_mcp.py: what follows it: the whole payload, or the payload field read with a fallback
LegacyFailDetail(t) ==
    CASE t = "spawn_entity" -> "result"
      [] t = "set_blocks" -> "result"
      [] t = "get_blocks_chunk" -> "result"
      [] t = "fill_box" -> "result"
      [] t = "broadcast_message" -> "result"
      [] t = "send_message_to_player" -> "result"
      [] t = "get_heightmap" -> "result"
      [] t = "place_nbt_structure" -> "error"
      [] t = "place_door_line" -> "error"
      [] t = "place_stairs" -> "error"
      [] t = "place_window_pane_wall" -> "error"
      [] t = "place_torch" -> "error"
      [] t = "place_sign" -> "error"
      [] t = "teleport_player" -> "message"
      [] t = "create_build" -> "error"
      [] t = "add_build_task" -> "error"
      [] t = "execute_build" -> "error"
      [] t = "query_builds_by_location" -> "error"
      [] t = "get_build_status" -> "error"
      [] OTHER -> "result"

LegacyToolNames == Range(LEGACY_TOOLS)

\* minecraft_mcp.py: the text a method returns when the flag is true, up to
\* its first interpolated value
LegacySuccessText(t) ==
    CASE t = "spawn_entity" -> <<CheckMark, " Successfully ", "spawned">>
      [] t = "set_blocks" -> <<CheckMark, " Successfully ", "set">>
      [] t = "fill_box" -> <<CheckMark, " Successfully ", "filled box with">>
      [] t = "broadcast_message" -> <<CheckMark, " Message sent to ">>
      [] t = "send_message_to_player" -> <<CheckMark, " Message sent to ">>
      [] t = "place_nbt_structure" -> <<CheckMark, " Successfully ", "placed NBT structure">>
      [] t = "place_door_line" -> <<CheckMark, " Successfully ", "placed">>
      [] t = "place_stairs" -> <<CheckMark, " Successfully ", "built staircase with">>
      [] t = "place_window_pane_wall" -> <<CheckMark, " Successfully ", "placed">>
      [] t = "place_torch" -> <<CheckMark, " Successfully ", "placed">>
      [] t = "place_sign" -> <<CheckMark, " Successfully ", "placed">>
      [] t = "teleport_player" -> <<CheckMark, " Successfully ", "teleported">>
      [] t = "create_build" -> <<CheckMark, " Successfully ", "created build">>
      [] t = "add_build_task" -> <<CheckMark, " Successfully ", "added ", "task_type", " task to build\n">>
      [] t = "execute_build" -> <<CheckMark, " Successfully ", "executed build">>
      [] t = "get_players" -> <<"**Online Players:**\n">>
      [] t = "get_entities" -> <<"**Available Entity Types (">>
      [] t = "get_blocks" -> <<"**Available Block Types (">>
      [] t = "get_blocks_chunk" -> <<"**Chunk Data (">>
      [] t = "get_heightmap" -> <<"**Heightmap Analysis (">>
      [] t = "query_builds_by_location" -> <<"**Found ">>
      [] t = "get_build_status" -> <<"**Build Status: ">>
      [] OTHER -> <<>>

\* the flag a method tests: result.get("status") == "success" in
\* teleport_player, result.get("success") elsewhere
LegacyFlagTrue(t, payload) ==
    IF t = "teleport_player" THEN payload = "success" ELSE PayloadSuccess(payload)

\* f"... Failed to <operation>: {result}", or {result.get('<field>', 'Unknown error')}
LegacyFailureText(t, payload) ==
    <<CrossMark, " Failed to ", LegacyFailLabel(t), ": ">>
        \o CASE LegacyFailDetail(t) = "result" -> PayloadRepr(payload)
             [] LegacyFailDetail(t) = "error" -> <<PayloadError(payload)>>
             [] OTHER -> <<"Unknown error">>

\* except Exception as e: ... f"Error connecting to Minecraft API: {str(e)}"
LegacyConnectivity(msg, http) ==
    Returned(CallToolResult(<<"Error connecting to Minecraft API: ">> \o msg), http)

\* minecraft_mcp.py set_blocks, the rest of its success text, read from the payload
LegacySuccessDetail(t, payload) ==
    IF t = "set_blocks"
    THEN << " ", PayloadField(payload, "blocks_set"),
            " blocks (skipped ", PayloadField(payload, "blocks_skipped"),
            ") in world ", PayloadField(payload, "world") >>
    ELSE <<>>

\* what a method does with the payload of a 2xx answer
LegacyOnPayload(t, payload, http) ==
    IF LegacyFlagTrue(t, payload)
    THEN IF payload = "success_bare" /\ LegacyMandatoryField(t) # None
         THEN LegacyConnectivity(<<"'", LegacyMandatoryField(t), "'">>, http)
         ELSE Returned(CallToolResult(LegacySuccessText(t) \o LegacySuccessDetail(t, payload)), http)
    ELSE Returned(CallToolResult(LegacyFailureText(t, payload)), http)

\* minecraft_mcp.py: the world of the request body. create_build and
\* query_builds_by_location put "minecraft:overworld" when no world is given,
\* the other methods leave the field out
LegacyBodyWorld(t, arguments) ==
    IF t \notin WorldMethods THEN NoField
    ELSE IF Truthy(Arg(arguments, "world", None)) THEN arguments["world"]
    ELSE IF t \in {"create_build", "query_builds_by_location"} THEN "minecraft:overworld"
    ELSE NoField

\* the shape shared by the methods: one request inside try, the payload's
\* flag tested, except Exception turned into the connectivity text
legacy_flag_method(t, arguments, remote) ==
    LET r == WithTaskType(WithWorld(HttpExchange(LegacyVerb(t), LegacyPath(t),
                                                 LegacyTimeout(t), remote),
                                    LegacyBodyWorld(t, arguments)),
                          IF t = "add_build_task"
                          THEN Arg(arguments, "task_type", NoField) ELSE NoField) IN
    IF r.raised THEN LegacyConnectivity(r.msg, r.http)
    ELSE LegacyOnPayload(t, r.payload, r.http)

\* minecraft_mcp.py get_players, get_entities, get_blocks: the payload is used
\* as a list
legacy_list_method(t, arguments, remote) ==
    LET r == HttpExchange(LegacyVerb(t), LegacyPath(t), LegacyTimeout(t), remote) IN
    IF r.raised THEN LegacyConnectivity(r.msg, r.http)
    ELSE IF r.payload = "success" \/ (r.payload = "empty" /\ t = "get_players")
    THEN Returned(CallToolResult(LegacySuccessText(t)), r.http)
    ELSE IF t = "get_players"
    THEN LegacyConnectivity(<<"string indices must be integers">>, r.http)
    ELSE LegacyConnectivity(<<"unhashable type: 'slice'">>, r.http)

\* minecraft_mcp.py send_message_to_player
legacy_send_message_to_player(arguments, remote) ==
    IF /\ ~Truthy(Arg(arguments, "player_uuid", None))
       /\ ~Truthy(Arg(arguments, "player_name", None))
    THEN Returned(CallToolResult(<<CrossMark, " ",
                    "Must provide either player_uuid or player_name">>), <<>>)
    ELSE legacy_flag_method("send_message_to_player", arguments, remote)

\* minecraft_mcp.py add_build_task: the task is posted to the build's queue
legacy_add_build_task(arguments, remote) ==
    legacy_flag_method("add_build_task", arguments, remote)

\* the 64 characters of the base64 alphabet
B64Alphabet ==
    { "A", "B", "C", "D", "E", "F", "G", "H", "I", "J", "K", "L", "M",
      "N", "O", "P", "Q", "R", "S", "T", "U", "V", "W", "X", "Y", "Z",
      "a", "b", "c", "d", "e", "f", "g", "h", "i", "j", "k", "l", "m",
      "n", "o", "p", "q", "r", "s", "t", "u", "v", "w", "x", "y", "z",
      "0", "1", "2", "3", "4", "5", "6", "7", "8", "9", "+", "/" }

\* minecraft_mcp.py place_nbt_structure: the data (a sequence of characters
\* other than "=") is padded with "=" to a multiple of 4 and handed to
\* base64.b64decode, which skips the characters outside the alphabet and
\* raises binascii.Error when the remaining ones, with the padding, do not
\* fill whole groups of 4
B64DecodeRaises(data) ==
    LET d == Cardinality({ i \in DOMAIN data : data[i] \in B64Alphabet })
        pads == (4 - (Len(data) % 4)) % 4
    IN \/ d % 4 = 1
       \/ d % 4 = 2 /\ pads < 2
       \/ d % 4 = 3 /\ pads < 1

\* minecraft_mcp.py place_nbt_structure
legacy_place_nbt_structure(arguments, remote) ==
    IF B64DecodeRaises(arguments["nbt_file_data"])
    THEN Returned(CallToolResult(<<CrossMark, " Invalid base64 data: ", "Incorrect padding">>), <<>>)
    ELSE legacy_flag_method("place_nbt_structure", arguments, remote)

\* minecraft_mcp.py teleport_player: HTTPStatusError has its own handler,
\* which reads the error body
legacy_teleport_player(arguments, remote) ==
    LET r == HttpExchange(LegacyVerb("teleport_player"), LegacyPath("teleport_player"),
                          LegacyTimeout("teleport_player"), remote) IN
    IF r.raised
    THEN IF r.exc = "HTTPStatusError"
         THEN Returned(CallToolResult(<<CrossMark, " Failed to ", "teleport player", ": ",
                                        "Internal Server Error">>), r.http)
         ELSE LegacyConnectivity(r.msg, r.http)
    ELSE LegacyOnPayload("teleport_player", r.payload, r.http)

\* minecraft_mcp.py test_server_connection: the body is read as text and
\* compared with "Hello World"; response.json() is not called, so a body
\* that is not JSON raises nothing
legacy_test_server_connection(arguments, remote) ==
    LET r == HttpExchange(LegacyVerb("test_server_connection"),
                          LegacyPath("test_server_connection"),
                          LegacyTimeout("test_server_connection"),
                          IF remote = "malformed" THEN "body" ELSE remote) IN
    IF r.raised
    THEN CASE r.exc = "ConnectError" ->
                Returned(CallToolResult(<<CrossMark,
                    " Cannot connect to Minecraft server - server is OFFLINE or not running">>), r.http)
           [] r.exc = "TimeoutException" ->
                Returned(CallToolResult(<<CrossMark,
                    " Minecraft server connection TIMEOUT - server may be overloaded">>), r.http)
           [] r.exc = "HTTPStatusError" ->
                Returned(CallToolResult(<<CrossMark,
                    " Minecraft server returned HTTP error ", "500", ": ", "Internal Server Error">>), r.http)
           [] OTHER ->
                Returned(CallToolResult(<<CrossMark, " Error testing server connection: ">> \o r.msg), r.http)
    ELSE IF r.payload = "success"
    THEN Returned(CallToolResult(<<CheckMark,
                    " Minecraft server is ONLINE and responding correctly">>), r.http)
    ELSE Returned(CallToolResult(<<WarnMark,
                    " Minecraft server responded but with unexpected content: '", r.payload, "'">>), r.http)

\* the method that call_tool's branch for name awaits
legacy_method(name, arguments, remote) ==
    CASE name = "send_message_to_player" -> legacy_send_message_to_player(arguments, remote)
      [] name = "add_build_task" -> legacy_add_build_task(arguments, remote)
      [] name = "place_nbt_structure" -> legacy_place_nbt_structure(arguments, remote)
      [] name = "teleport_player" -> legacy_teleport_player(arguments, remote)
      [] name = "test_server_connection" -> legacy_test_server_connection(arguments, remote)
      [] name \in {"get_players", "get_entities", "get_blocks"} ->
            legacy_list_method(name, arguments, remote)
      [] OTHER -> legacy_flag_method(name, arguments, remote)

\* self.<name>(**arguments): the methods take no **kwargs, so a keyword that
\* names no parameter fails the call as a missing one does
LegacyBinds(name, arguments) ==
    \/ name \in LegacyIgnoresArguments
    \/ /\ LegacyRequired(name) \subseteq DOMAIN arguments
       /\ DOMAIN arguments \subseteq LegacyRequired(name) \cup LegacyOptional(name)

\* minecraft_mcp.py call_tool: the branches return result.content, the except
\* clause returns the CallToolResult itself
legacy_call_tool(name, arguments, remote) ==
    IF name \notin LegacyToolNames
    THEN [raised |-> FALSE, http |-> <<>>, handler |-> None, shape |-> "CallToolResult",
          content |-> CallToolResult(<<"Error: ", "Unknown tool: ", name>>)]
    ELSE IF ~LegacyBinds(name, arguments)
    THEN [raised |-> FALSE, http |-> <<>>, handler |-> name, shape |-> "CallToolResult",
          content |-> CallToolResult(<<"Error: ", name, "() arguments do not match its parameters">>)]
    ELSE LET result == legacy_method(name, arguments, remote) IN
         [raised |-> FALSE, http |-> result.http, handler |-> name, shape |-> "content",
          content |-> result.content]

\* minecraft_mcp.py yaw_to_cardinal
legacy_yaw_to_cardinal(yaw) ==
    LET y == ((yaw + 180) % 360) - 180 IN
    IF -45 <= y /\ y < 45 THEN "SOUTH"
    ELSE IF 45 <= y /\ y < 135 THEN "WEST"
    ELSE IF y >= 135 \/ y < -135 THEN "NORTH"
    ELSE "EAST"

(***************************************************************************)
(* utils/helpers.py                                                        *)
(***************************************************************************)
\* the remainder that truncates toward zero (C's %), unlike Python's
TruncMod(a, b) == IF a >= 0 THEN a % b ELSE -((-a) % b)

\* the normalisation, were % to truncate toward zero
NormalizeYaw_truncating(yaw) == TruncMod(yaw + 180, 360) - 180

\* yaw = ((yaw + 180) % 360) - 180; Python's % takes the sign of the divisor,
\* as TLA+'s does for a positive divisor
NormalizeYaw(yaw) == ((yaw + 180) % 360) - 180

\* yaw_to_cardinal with each interval closed above instead of below
yaw_to_cardinal_closed_above(yaw) ==
    LET y == NormalizeYaw(yaw) IN
    IF -45 < y /\ y <= 45 THEN "SOUTH"
    ELSE IF 45 < y /\ y <= 135 THEN "WEST"
    ELSE IF y > 135 \/ y <= -135 THEN "NORTH"
    ELSE "EAST"

\* yaw_to_cardinal
yaw_to_cardinal(yaw) ==
    LET y == NormalizeYaw(yaw) IN
    IF -45 <= y /\ y < 45 THEN "SOUTH"
    ELSE IF 45 <= y /\ y < 135 THEN "WEST"
    ELSE IF y >= 135 \/ y < -135 THEN "NORTH"
    ELSE "EAST"

(***************************************************************************)
(* Inputs                                                                  *)
(***************************************************************************)
\* names neither implementation dispatches
UnknownNames == { "no_such_tool", "place_bed", "" }

\* the names server.py's call_tool is invoked with: every key whose handler
\* exists, and the unknown ones
ToolNameInputs == DOMAIN TOOL_HANDLERS \cup UnknownNames

\* the names the script's call_tool is invoked with: its own, the unknown
\* ones, and two that only the package knows
LegacyNameInputs ==
    LegacyToolNames \cup UnknownNames
        \cup { "add_build_task_block_set", "get_coordinate_conventions" }

\* base64 data are sequences of characters; every other value is opaque
SampleValue(p) == IF p = "nbt_file_data" THEN <<"Q", "U", "J", "D">> ELSE "v"

Mapping(S) == [ p \in S |-> SampleValue(p) ]

\* nbt_file_data other than the sample: base64 whose length is not a
\* multiple of 4 ("QUI" and "QQ" encode "AB" and "A"), and data that are not
\* base64, of length 1, 3 and 4
NbtDataInputs ==
    { <<"Q", "U", "I">>, <<"Q", "Q">>,
      <<"A">>, <<"!", "!", "!">>, <<"!", "!", "!", "!">>, <<"Q", "U", "!", "D">> }

\* player_uuid and player_name: absent, None, empty, or a value
Absent == "<absent>"

MessageMapping(m, u, n) ==
    [ p \in { q \in {"message", "player_uuid", "player_name"} :
                \/ q = "message" /\ m
                \/ q = "player_uuid" /\ u # Absent
                \/ q = "player_name" /\ n # Absent }
        |-> CASE p = "message" -> "hello"
              [] p = "player_uuid" -> u
              [] OTHER -> n ]

MessageArguments ==
    { MessageMapping(m, u, n) : m \in BOOLEAN,
                               u \in { Absent, None, "", "uuid-1" },
                               n \in { Absent, None, "", "Steve" } }

\* the argument mappings tried for a tool whose required parameters are req:
\* complete, with world, with a keyword no parameter names, with one required
\* parameter missing; for add_build_task also the arguments its schema
\* describes, for place_nbt_structure also the data of NbtDataInputs
ArgumentMappings(name, req) ==
    IF name = "send_message_to_player" THEN MessageArguments
    ELSE { Mapping(req), Mapping(req \cup {"world"}), Mapping(req \cup {"unexpected"}) }
         \cup { Mapping(req \ {p}) : p \in req }
         \cup (IF name = "add_build_task"
               THEN { Mapping({"build_id", "task_type", "task_data"}), Mapping({"build_id"}) }
               ELSE {})
         \cup (IF name = "place_nbt_structure" /\ "nbt_file_data" \in req
               THEN { [Mapping(req) EXCEPT !["nbt_file_data"] = d] : d \in NbtDataInputs }
               ELSE {})

\* the returned text reports a failure
IsFailure(content) ==
    content[1].text[1] \in { CrossMark, "Error ", "Error: ", "Error connecting to Minecraft API: " }

(***************************************************************************)
(* The state machine                                                       *)
(***************************************************************************)
NoCall == [impl |-> None, name |-> None, arguments |-> Mapping({}), remote |-> None]

\* an invocation has returned and its result is not yet delivered
InFlight == last_shape # None

Init ==
    /\ import_state = [status |-> "not_imported", failed_key |-> None]
    /\ server = "none"
    /\ listed = <<>>
    /\ calls = 0
    /\ last_call = NoCall
    /\ last_result = <<>>
    /\ last_shape = None
    /\ last_http = <<>>
    /\ last_handler = None
    /\ propagated = FALSE
    /\ prev_failed = FALSE
    /\ yaw_in = 0
    /\ yaw_turns = 0
    /\ yaw_norm = 0
    /\ facing = None
    /\ facing_shifted = None
    /\ facing_legacy = None
    /\ conc_pc = [i \in Tasks |-> "idle"]
    /\ conc_call = [i \in Tasks |-> NoCall]
    /\ conc_request = [i \in Tasks |-> <<>>]
    /\ conc_response = [i \in Tasks |-> None]
    /\ conc_result = [i \in Tasks |-> <<>>]
    /\ fn_called = None
    /\ fn_args = <<>>
    /\ fn_result = <<>>

\* import minecraft_mcp, then MinecraftMCPServer(api_base): __init__.py
\* imports server.py, which imports tools/registry.py, which evaluates the
\* TOOL_HANDLERS literal. The requests of the package server are modelled
\* from server.py with the registry entries that resolve, whatever the
\* outcome recorded here
ImportAndConstruct ==
    /\ server = "none"
    /\ import_state' =
          LET i == FirstUnresolved(1) IN
          IF i = 0 THEN [status |-> "constructed", failed_key |-> None]
          ELSE [status |-> "AttributeError", failed_key |-> RegistryLiteral[i][1]]
    /\ server' = "package"
    /\ UNCHANGED <<listed, call_vars, yaw_vars, aux_vars>>

\* python minecraft_mcp.py: main() constructs the script's MinecraftMCPServer
LegacyStart ==
    /\ server = "none"
    /\ server' = "script"
    /\ UNCHANGED <<import_state, listed, call_vars, yaw_vars, aux_vars>>

\* a tools/list request to the package server
ListTools ==
    /\ server = "package"
    /\ ~propagated
    /\ listed' = list_tools
    /\ UNCHANGED <<import_state, server, call_vars, yaw_vars, aux_vars>>

\* what an invocation leaves behind
Answer(impl, name, arguments, remote, r) ==
    /\ last_call' = [impl |-> impl, name |-> name, arguments |-> arguments, remote |-> remote]
    /\ last_result' = r.content
    /\ last_shape' = r.shape
    /\ last_http' = r.http
    /\ last_handler' = r.handler
    /\ propagated' = r.raised
    /\ calls' = calls + 1
    /\ UNCHANGED <<import_state, server, listed, prev_failed, yaw_vars, aux_vars>>

\* an invocation that answers from local state: after a failed invocation the
\* next one is refused without being attempted
Serve_remembering(impl, name, arguments, remote, earlier_failed) ==
    IF earlier_failed
    THEN [raised |-> FALSE, http |-> <<>>, handler |-> None, shape |-> "content",
          content |-> CallToolResult(<<"Error: ", "previous invocation failed">>)]
    ELSE IF impl = "package" THEN call_tool(name, arguments, remote)
    ELSE legacy_call_tool(name, arguments, remote)

\* an invocation on a server whose previous invocation failed or not. The
\* server object holds api_base, server and api_client (base_url), all set in
\* __init__ and assigned nowhere else: call_tool reads nothing an earlier
\* invocation wrote
Serve(impl, name, arguments, remote, earlier_failed) ==
    IF impl = "package" THEN call_tool(name, arguments, remote)
    ELSE legacy_call_tool(name, arguments, remote)

\* a tools/call request to the package server, against a remote server that
\* behaves as `remote`
CallTool ==
    /\ server = "package"
    /\ ~propagated /\ ~InFlight
    /\ calls < MaxCalls
    /\ \E name \in ToolNameInputs, remote \in RemoteBehaviours :
         \E arguments \in ArgumentMappings(name, Required(get_handler(name))) :
            Answer("package", name, arguments, remote,
                   Serve("package", name, arguments, remote, prev_failed))

\* a tools/call request to the script
LegacyCallTool ==
    /\ server = "script"
    /\ ~propagated /\ ~InFlight
    /\ calls < MaxCalls
    /\ \E name \in LegacyNameInputs, remote \in RemoteBehaviours :
         \E arguments \in ArgumentMappings(name, LegacyRequired(name)) :
            Answer("script", name, arguments, remote,
                   Serve("script", name, arguments, remote, prev_failed))

\* the result is handed to the transport; the server keeps nothing of the
\* invocation
Deliver ==
    /\ InFlight /\ ~propagated
    /\ prev_failed' = IsFailure(last_result)
    /\ last_call' = NoCall
    /\ last_result' = <<>>
    /\ last_shape' = None
    /\ last_http' = <<>>
    /\ last_handler' = None
    /\ UNCHANGED <<import_state, server, listed, calls, propagated, yaw_vars, aux_vars>>

Next ==
    \/ ImportAndConstruct
    \/ LegacyStart
    \/ ListTools
    \/ CallTool
    \/ LegacyCallTool
    \/ Deliver

Spec == Init /\ [][Next]_vars

\* yaw_to_cardinal, of the package and of the script, applied to a yaw, and
\* the package's to the same yaw some full turns away
YawToCardinal ==
    /\ facing = None
    /\ \E yaw \in -MaxYaw..MaxYaw, turns \in -MaxTurns..MaxTurns :
         /\ yaw_in' = yaw
         /\ yaw_turns' = turns
         /\ yaw_norm' = NormalizeYaw(yaw)
         /\ facing' = yaw_to_cardinal(yaw)
         /\ facing_shifted' = yaw_to_cardinal(yaw + 360 * turns)
         /\ facing_legacy' = legacy_yaw_to_cardinal(yaw)
    /\ UNCHANGED <<import_state, server, listed, call_vars, aux_vars>>

NextYaw == YawToCardinal

SpecYaw == Init /\ [][NextYaw]_vars

(***************************************************************************)
(* Properties                                                              *)
(***************************************************************************)

\* C1: every tool name that list_tools advertises from TOOL_SCHEMAS resolves
\* through get_handler to a handler, never to None.
C1_AdvertisedNamesResolve ==
    \A i \in DOMAIN listed : get_handler(listed[i]) # None

\* C2: importing the package and constructing MinecraftMCPServer(api_base)
\* never fails: every handler function the TOOL_HANDLERS literal refers to is
\* defined in its module.
C2_ImportAndConstructSucceed ==
    import_state.status # "not_imported" =>
        /\ import_state.status = "constructed"
        /\ \A i \in DOMAIN RegistryLiteral : EntryResolves(RegistryLiteral[i])

\* C3: the keys of TOOL_HANDLERS are exactly the names list_tools advertises:
\* no advertised tool lacks a key and no key lacks an advertised schema.
C3_RegistryKeysAreAdvertisedNames ==
    listed # <<>> => RegistryKeys = Range(listed)

\* the closed set of 32 supported tool names
SupportedToolNames ==
    { "get_players", "get_entities", "spawn_entity",
      "get_blocks", "set_blocks", "get_blocks_chunk", "fill_box", "get_heightmap",
      "broadcast_message", "send_message_to_player",
      "place_nbt_structure", "place_door_line", "place_stairs",
      "place_window_pane_wall", "place_torch", "place_sign",
      "teleport_player", "test_server_connection", "get_coordinate_conventions",
      "create_build", "add_build_task", "add_build_task_single_block_set",
      "add_build_task_block_set", "add_build_task_block_fill",
      "add_build_task_prefab_door", "add_build_task_prefab_stairs",
      "add_build_task_prefab_window", "add_build_task_prefab_torch",
      "add_build_task_prefab_sign",
      "execute_build", "query_builds_by_location", "get_build_status" }

\* C4: list_tools advertises exactly the closed set of 32 supported tool
\* names, each once.
C4_ListToolsAdvertisesSupportedNames ==
    listed # <<>> =>
        /\ Range(listed) = SupportedToolNames
        /\ Cardinality(Range(listed)) = Len(listed)

\* the invocation in flight names a tool its server's dispatch does not know:
\* no key of the registry literal, no branch of the script's if/elif chain
C5_NameUnknown ==
    /\ InFlight
    /\ IF last_call.impl = "package"
       THEN last_call.name \notin RegistryKeys
       ELSE last_call.name \notin LegacyToolNames

\* C5: a call_tool whose name the dispatch does not know returns one text
\* block reading "Error: Unknown tool: <name>", invokes no handler and issues
\* no HTTP request, whatever the arguments and the remote server.
C5_UnknownToolIsReported ==
    C5_NameUnknown =>
        /\ last_result = << [type |-> "text",
                             text |-> <<"Error: ", "Unknown tool: ", last_call.name>>] >>
        /\ last_handler = None
        /\ last_http = <<>>

C5_Witness ==
    /\ last_call.impl = "package"
    /\ last_call.name = "place_bed"
    /\ "unexpected" \in DOMAIN last_call.arguments
    /\ last_call.remote = "connect_error"
    /\ last_result[1].text[2] = "Unknown tool: "

\* C6: no exception ever escapes call_tool: for every name, argument mapping
\* and remote behaviour what it returns is a non-empty sequence of non-empty
\* text blocks, after a failed invocation as before one.
C6_CallToolAlwaysAnswers ==
    /\ ~propagated
    /\ InFlight =>
          /\ last_shape = "content"
          /\ Len(last_result) >= 1
          /\ \A i \in DOMAIN last_result :
                last_result[i].type = "text" /\ Len(last_result[i].text) >= 1

\* the table of C7 over a normalised integer yaw
C7_Table(n) ==
    CASE n \in -45..44 -> "SOUTH"
      [] n \in 45..134 -> "WEST"
      [] n \in (135..179) \cup (-180..-136) -> "NORTH"
      [] n \in -135..-46 -> "EAST"

\* C7: yaw_to_cardinal(yaw), in the package and in the script, is the
\* cardinal the table gives for the one value in [-180, 180) that differs
\* from yaw by a multiple of 360: [-45, 45) SOUTH, [45, 135) WEST,
\* [135, 180) and [-180, -135) NORTH, [-135, -45) EAST.
C7_YawFollowsTable ==
    facing # None =>
        \E n \in -180..179 :
            /\ (yaw_in - n) % 360 = 0
            /\ facing = C7_Table(n)
            /\ facing_legacy = C7_Table(n)

C7_Witness ==
    yaw_in = -405 /\ facing = "SOUTH" /\ facing_legacy = "SOUTH"

\* C8: yaw_to_cardinal has period 360, and the yaw it normalises lands in
\* [-180, 180) for negative arguments as for positive ones.
C8_YawPeriodicAndInRange ==
    facing # None =>
        /\ facing_shifted = facing
        /\ yaw_norm \in -180..179

C8_Witness ==
    /\ yaw_in = -200
    /\ yaw_turns = -1
    /\ yaw_norm = 160
    /\ facing = "NORTH"
    /\ facing_shifted = "NORTH"

\* the invocation in flight is a send_message_to_player that names neither
\* player_uuid nor player_name, or names them with None or the empty string
C9_NeitherIdentifier ==
    /\ InFlight
    /\ last_call.name = "send_message_to_player"
    /\ Arg(last_call.arguments, "player_uuid", None) \in {None, ""}
    /\ Arg(last_call.arguments, "player_name", None) \in {None, ""}

\* C9: send_message_to_player with neither identifier issues no HTTP request
\* and, given a message, returns the validation error "Must provide either
\* player_uuid or player_name"; a request to /api/message/player is issued
\* only when at least one identifier is supplied.
C9_MessageNeedsIdentifier ==
    /\ C9_NeitherIdentifier =>
          /\ last_http = <<>>
          /\ "message" \in DOMAIN last_call.arguments =>
                last_result = << [type |-> "text",
                                  text |-> <<CrossMark, " ",
                                             "Must provide either player_uuid or player_name">>] >>
    /\ \A i \in DOMAIN last_http :
          last_http[i].path = "/api/message/player" =>
              last_call.name = "send_message_to_player" /\ ~C9_NeitherIdentifier

C9_Witness ==
    /\ last_call.impl = "package"
    /\ last_call.name = "send_message_to_player"
    /\ DOMAIN last_call.arguments = {"message", "player_uuid", "player_name"}
    /\ last_call.arguments["player_uuid"] = ""
    /\ last_call.arguments["player_name"] = None
    /\ last_call.remote = "success"
    /\ last_http = <<>>
    /\ last_result[1].text[1] = CrossMark

\* C10: add_build_task issues no HTTP request and returns the same
\* deprecation message, naming the seven replacement tools, for every argument
\* mapping and every remote behaviour.
C10_AddBuildTaskIsAStub ==
    (InFlight /\ last_call.name = "add_build_task") =>
        /\ last_http = <<>>
        /\ last_result = << [type |-> "text", text |-> DEPRECATION_TEXT] >>
        /\ \A t \in { "add_build_task_block_set", "add_build_task_block_fill",
                      "add_build_task_prefab_door", "add_build_task_prefab_stairs",
                      "add_build_task_prefab_window", "add_build_task_prefab_torch",
                      "add_build_task_prefab_sign" } :
              \E i \in DOMAIN last_result[1].text : last_result[1].text[i] = t

\* the three forms of error output: format_error_response, the "Failed to"
\* text of a handler's else branch, format_validation_error
C11_ConnectivityForm ==
    /\ InFlight
    /\ last_result[1].text[1] \in {"Error ", "Error connecting to Minecraft API: "}

C11_RemoteFailureForm ==
    /\ InFlight
    /\ Len(last_result[1].text) >= 2
    /\ last_result[1].text[1] = CrossMark
    /\ last_result[1].text[2] = " Failed to "

C11_ValidationForm ==
    /\ InFlight
    /\ Len(last_result[1].text) >= 2
    /\ last_result[1].text[1] = CrossMark
    /\ last_result[1].text[2] = " "

\* C11: the three error tiers stay distinguishable: the connectivity form is
\* produced only when the HTTP exchange itself failed (connect error, timeout
\* or non-2xx status), the remote-failure form only when a 2xx payload did not
\* declare success, and the validation form only when no request was sent.
C11_ErrorTiersDistinguishable ==
    /\ C11_ConnectivityForm =>
          /\ last_http # <<>>
          /\ last_call.remote \in {"connect_error", "timeout", "status_500"}
    /\ C11_RemoteFailureForm =>
          /\ last_http # <<>>
          /\ last_call.remote \in {"failure_error", "failure_bare", "empty"}
    /\ C11_ValidationForm => last_http = <<>>

\* the tokens of the first text block of the result in flight
ResultTokens == { last_result[1].text[i] : i \in DOMAIN last_result[1].text }

\* C12: when a handler of the package receives a 2xx payload that declares
\* success false, its negative result text carries the payload's error field when the
\* payload has one and the literal "Unknown error" when it has none.
C12_FailureCarriesErrorField ==
    (C11_RemoteFailureForm /\ last_http # <<>> /\ last_call.impl = "package") =>
        /\ last_call.remote = "failure_error" => "out of bounds" \in ResultTokens
        /\ last_call.remote = "failure_bare" => "Unknown error" \in ResultTokens

\* the invocation in flight carries every argument fill_box requires
C13_FillBoxComplete ==
    /\ InFlight
    /\ last_call.name = "fill_box"
    /\ {"x1", "y1", "z1", "x2", "y2", "z2", "block_type"} \subseteq DOMAIN last_call.arguments

\* the success marker appears only after a 2xx answer whose payload declared
\* success true
C13_MarkerSound ==
    (InFlight /\ last_call.name # "test_server_connection" /\ CheckMark \in ResultTokens) =>
        /\ last_http # <<>>
        /\ last_call.remote \in {"success", "success_bare"}

\* C13: the success marker is sound for every handler whose payload carries a
\* success flag, and fill_box answered with {success: false, error: "out of
\* bounds"} returns a text that contains "out of bounds" and no success marker.
C13_SuccessMarkerSound ==
    /\ C13_MarkerSound
    /\ (C13_FillBoxComplete /\ last_call.remote = "failure_error") =>
          /\ "out of bounds" \in ResultTokens
          /\ CheckMark \notin ResultTokens

\* C14: set_blocks answered with {success: true, blocks_set: 42,
\* blocks_skipped: 3, world: "minecraft:overworld"} returns a success text
\* that contains 42, 3 and minecraft:overworld as the payload supplies them,
\* not the world of the call's own arguments.
C14_SetBlocksReportsPayload ==
    (InFlight /\ last_call.name = "set_blocks" /\ last_call.remote = "success"
       /\ last_http # <<>>) =>
        /\ CheckMark \in ResultTokens
        /\ {"42", "3", "minecraft:overworld"} \subseteq ResultTokens
        /\ "world" \in DOMAIN last_call.arguments =>
              last_call.arguments["world"] \notin ResultTokens

C14_Witness ==
    /\ InFlight
    /\ last_call.impl = "package"
    /\ last_call.name = "set_blocks"
    /\ last_call.remote = "success"
    /\ "world" \in DOMAIN last_call.arguments
    /\ last_http # <<>>
    /\ "42" \in ResultTokens

\* the invocation in flight is a connection test; the probe takes no argument
C15_Probe == InFlight /\ last_call.name = "test_server_connection"

\* C15: test_server_connection distinguishes three outcomes: a refused
\* connection is reported as the server being offline, a timeout as a timeout
\* in words that differ from the offline text, and a 200 answer whose body is
\* not the expected content (no JSON at all, or an empty object) as an
\* "unexpected content" warning, neither the ONLINE message nor a failure.
C15_ConnectionTestOutcomes ==
    C15_Probe =>
        /\ last_call.remote = "connect_error" =>
              last_result[1].text =
                 <<CrossMark, " Cannot connect to Minecraft server - server is OFFLINE or not running">>
        /\ last_call.remote = "timeout" =>
              /\ last_result[1].text[1] = CrossMark
              /\ last_result[1].text[2] \in
                    { " Connection to Minecraft server timed out",
                      " Minecraft server connection TIMEOUT - server may be overloaded" }
        /\ last_call.remote \in {"malformed", "empty"} =>
              /\ last_result[1].text[1] = WarnMark
              /\ CheckMark \notin ResultTokens
              /\ CrossMark \notin ResultTokens

\* the tools whose remote endpoint takes a world
C16_WorldTools ==
    { "spawn_entity", "set_blocks", "get_blocks_chunk", "fill_box", "get_heightmap",
      "place_nbt_structure", "place_door_line", "place_stairs",
      "place_window_pane_wall", "place_torch", "place_sign",
      "create_build", "query_builds_by_location" }

\* C16: a request of a tool whose endpoint takes a world carries
\* world = "minecraft:overworld" in its body when the call gives no world,
\* and the given world when it gives one.
C16_WorldDefaultApplied ==
    (InFlight /\ last_call.name \in C16_WorldTools) =>
        \A i \in DOMAIN last_http :
            last_http[i].world =
                IF "world" \in DOMAIN last_call.arguments
                THEN last_call.arguments["world"]
                ELSE "minecraft:overworld"

\* data, given without "=", are base64: every character is of the alphabet
\* and they are not one character more than whole groups of 4
C17_IsBase64(data) ==
    /\ \A i \in DOMAIN data : data[i] \in B64Alphabet
    /\ Len(data) % 4 # 1

\* the invocation in flight is a place_nbt_structure with every required argument
C17_Placement ==
    /\ InFlight
    /\ last_call.name = "place_nbt_structure"
    /\ {"nbt_file_data", "filename", "x", "y", "z"} \subseteq DOMAIN last_call.arguments

\* C17: place_nbt_structure given data that are not valid base64, whatever
\* their length, returns an invalid-encoding error and sends no HTTP request;
\* given valid base64 whose length is not a multiple of 4 it pads and decodes
\* them and sends one placement request.
C17_Base64Checked ==
    C17_Placement =>
        LET data == last_call.arguments["nbt_file_data"] IN
        /\ ~C17_IsBase64(data) =>
              /\ last_http = <<>>
              /\ " Invalid base64 data: " \in ResultTokens
        /\ (C17_IsBase64(data) /\ Len(data) % 4 # 0) =>
              /\ Len(last_http) = 1
              /\ " Invalid base64 data: " \notin ResultTokens

\* the timeout in seconds a request of tool name is to carry; a request that
\* gives none runs under httpx's default of 5 seconds
C18_Timeouts(name) ==
    CASE name = "place_nbt_structure" -> {60}
      [] name = "execute_build" -> {120}
      [] name = "test_server_connection" -> {5, NoTimeout}
      [] OTHER -> {NoTimeout}

\* C18: the timeout of a request is selected per call type: 60 s for the
\* structure placement, 120 s for the build execution, about 5 s for the
\* connection test, and the default for every other request.
C18_TimeoutPerCallType ==
    InFlight =>
        \A i \in DOMAIN last_http : last_http[i].timeout \in C18_Timeouts(last_call.name)

\* the discriminator that corresponds to each task-specific build tool
C19_Discriminator(name) ==
    CASE name = "add_build_task_block_set" -> "BLOCK_SET"
      [] name = "add_build_task_block_fill" -> "BLOCK_FILL"
      [] name = "add_build_task_prefab_door" -> "PREFAB_DOOR"
      [] name = "add_build_task_prefab_stairs" -> "PREFAB_STAIRS"
      [] name = "add_build_task_prefab_window" -> "PREFAB_WINDOW"
      [] name = "add_build_task_prefab_torch" -> "PREFAB_TORCH"
      [] name = "add_build_task_prefab_sign" -> "PREFAB_SIGN"

C19_TaskTools ==
    { "add_build_task_block_set", "add_build_task_block_fill",
      "add_build_task_prefab_door", "add_build_task_prefab_stairs",
      "add_build_task_prefab_window", "add_build_task_prefab_torch",
      "add_build_task_prefab_sign" }

\* the invocation in flight is one of them, on the package server, with every
\* argument its handler requires
C19_TaskCall ==
    /\ InFlight
    /\ last_call.impl = "package"
    /\ last_call.name \in C19_TaskTools
    /\ Required(get_handler(last_call.name)) \subseteq DOMAIN last_call.arguments

\* C19: every task-specific build tool calls the one add-task endpoint
\* /api/builds/{build_id}/tasks with the task_type that corresponds to the
\* tool, a member of the closed set of seven discriminators.
C19_TaskToolsCallAddTask ==
    C19_TaskCall =>
        /\ Len(last_http) = 1
        /\ last_http[1].verb = "POST"
        /\ last_http[1].path = Path("add_build_task")
        /\ last_http[1].task_type = C19_Discriminator(last_call.name)

\* the invocation in flight reaches a handler of the package, other than the
\* deprecated add_build_task and the static get_coordinate_conventions, with
\* every argument the handler requires (for send_message_to_player, one of
\* the two identifiers as well), against a remote server that answers 2xx
\* with success true
C20_WellFormedCall ==
    /\ InFlight
    /\ last_call.impl = "package"
    /\ last_call.name \in DOMAIN TOOL_HANDLERS
    /\ last_call.name \notin {"add_build_task", "get_coordinate_conventions"}
    /\ Required(get_handler(last_call.name)) \subseteq DOMAIN last_call.arguments
    /\ ~C9_NeitherIdentifier
    /\ last_call.remote = "success"

\* C20: such an invocation issues exactly one HTTP request and returns a
\* result that is not an error: the handler's call of the API-client method
\* is accepted by the method's signature.
C20_OneRequestPerTool ==
    C20_WellFormedCall =>
        /\ Len(last_http) = 1
        /\ ~IsFailure(last_result)

\* C21: no tool invocation issues more than one HTTP request: whatever the
\* outcome (connect error, timeout, non-2xx status, a success false payload)
\* the handler returns after its first request, without retrying.
C21_AtMostOneRequest ==
    InFlight => Len(last_http) <= 1 /\ ~propagated

C21_Witness ==
    /\ InFlight
    /\ last_call.impl = "package"
    /\ last_call.name = "execute_build"
    /\ last_call.remote = "timeout"
    /\ Len(last_http) = 1
    /\ IsFailure(last_result)

\* what the invocation in flight returns on a server that has served nothing
C22_Fresh ==
    IF last_call.impl = "package"
    THEN call_tool(last_call.name, last_call.arguments, last_call.remote)
    ELSE legacy_call_tool(last_call.name, last_call.arguments, last_call.remote)

ConcNames == { "set_blocks", "get_players" }

\* the arguments they are invoked with: complete, with world, and for
\* set_blocks without blocks
ConcArguments(name) ==
    LET req == Required(get_handler(name)) IN
    IF name = "set_blocks"
    THEN { Mapping(req), Mapping(req \cup {"world"}), Mapping(req \ {"blocks"}) }
    ELSE { Mapping(req) }

\* mutant of ResponseFor: one response slot shared by the invocations, read
\* at resumption
ResponseFor_shared(i, responses) ==
    IF \E j \in Tasks \ {i} : responses[j] # None
    THEN responses[CHOOSE j \in Tasks \ {i} : responses[j] # None]
    ELSE responses[i]

\* `response = await client.post(...)`: the awaited call returns the
\* response to the request this coroutine sent
ResponseFor(i, responses) == responses[i]

\* call_tool up to its suspension: the handler is looked up, the arguments
\* are bound, the client method builds its payload and sends the request.
\* An invocation that fails before any request returns without suspending
ConcStart(i) ==
    /\ conc_pc[i] = "idle"
    /\ \E name \in ConcNames :
         \E arguments \in ConcArguments(name) :
            LET sent == call_tool(name, arguments, "success").http
            IN  /\ conc_call' = [conc_call EXCEPT ![i] =
                       [impl |-> "package", name |-> name,
                        arguments |-> arguments, remote |-> None]]
                /\ conc_request' = [conc_request EXCEPT ![i] = sent]
                /\ IF sent = <<>>
                   THEN /\ conc_pc' = [conc_pc EXCEPT ![i] = "done"]
                        /\ conc_result' = [conc_result EXCEPT ![i] =
                               call_tool(name, arguments, "success").content]
                   ELSE /\ conc_pc' = [conc_pc EXCEPT ![i] = "suspended"]
                        /\ UNCHANGED conc_result
    /\ UNCHANGED <<import_state, server, listed, call_vars, yaw_vars, fn_vars, conc_response>>

\* the remote server answers the request of invocation i
ConcRespond(i) ==
    /\ conc_pc[i] = "suspended"
    /\ conc_response[i] = None
    /\ \E remote \in RemoteBehaviours :
         conc_response' = [conc_response EXCEPT ![i] = remote]
    /\ UNCHANGED <<import_state, server, listed, call_vars, yaw_vars, fn_vars,
                   conc_pc, conc_call, conc_request, conc_result>>

\* the coroutine resumes: raise_for_status, response.json(), the handler's
\* formatting and call_tool's `return result.content`, from its own locals
ConcResume(i) ==
    /\ conc_pc[i] = "suspended"
    /\ conc_response[i] # None
    /\ conc_result' = [conc_result EXCEPT ![i] =
           call_tool(conc_call[i].name, conc_call[i].arguments,
                     ResponseFor(i, conc_response)).content]
    /\ conc_pc' = [conc_pc EXCEPT ![i] = "done"]
    /\ UNCHANGED <<import_state, server, listed, call_vars, yaw_vars, fn_vars,
                   conc_call, conc_request, conc_response>>

NextConc == \E i \in Tasks : ConcStart(i) \/ ConcRespond(i) \/ ConcResume(i)

SpecConc == Init /\ [][NextConc]_vars

JNull == [t |-> "null"]
JBool(b) == [t |-> "bool", b |-> b]
JNum(n) == [t |-> "int", n |-> n]
JStr(s) == [t |-> "str", s |-> s]
JList(items) == [t |-> "list", items |-> items]
JDict(pairs) == [t |-> "dict", pairs |-> pairs]

\* key in d, d[key] and d.get(key, default) of a dict
DictHas(d, key) == \E i \in DOMAIN d.pairs : d.pairs[i][1] = key
DictGet(d, key) == d.pairs[CHOOSE i \in DOMAIN d.pairs : d.pairs[i][1] = key][2]
DictGetOr(d, key, default) == IF DictHas(d, key) THEN DictGet(d, key) ELSE default

\* a text as the sequence of its lexical pieces: JSON punctuation, literals,
\* numbers and quoted strings, and pieces of prose
Punct(c) == [k |-> "punct", s |-> c]
Literal(w) == [k |-> "literal", s |-> w]
Number(digits) == [k |-> "number", s |-> digits]
Quoted(s) == [k |-> "string", s |-> s]
Prose(s) == [k |-> "text", s |-> s]

\* the side of the largest chunk requested
MaxChunkSide == 2

\* the integers a payload carries
MaxInt == MaxChunkSide * MaxChunkSide

RECURSIVE ConcatAll(_)
ConcatAll(seqs) == IF seqs = <<>> THEN <<>> ELSE Head(seqs) \o ConcatAll(Tail(seqs))

\* the pieces of seqs in order, a comma between two of them
RECURSIVE CommaJoined(_)
CommaJoined(seqs) ==
    IF seqs = <<>> THEN <<>>
    ELSE IF Len(seqs) = 1 THEN Head(seqs)
    ELSE Head(seqs) \o <<Punct(",")>> \o CommaJoined(Tail(seqs))

\* json.dumps(value, indent=2): the indentation is whitespace between the
\* pieces and is not represented
RECURSIVE json_dumps(_)
json_dumps(v) ==
    CASE v.t = "null" -> <<Literal("null")>>
      [] v.t = "bool" -> <<Literal(IF v.b THEN "true" ELSE "false")>>
      [] v.t = "int" -> <<Number(ToString(v.n))>>
      [] v.t = "str" -> <<Quoted(v.s)>>
      [] v.t = "list" ->
            <<Punct("[")>>
            \o CommaJoined([i \in DOMAIN v.items |-> json_dumps(v.items[i])])
            \o <<Punct("]")>>
      [] v.t = "dict" ->
            <<Punct("{")>>
            \o CommaJoined([i \in DOMAIN v.pairs |->
                   <<Quoted(v.pairs[i][1]), Punct(":")>> \o json_dumps(v.pairs[i][2])])
            \o <<Punct("}")>>

\* json.loads(text): a value read from position i on, with the position
\* after it, or no value
JSONDecodeError == [t |-> "JSONDecodeError"]
NoParse == [ok |-> FALSE, v |-> JSONDecodeError, next |-> 0]
Parsed(v, next) == [ok |-> TRUE, v |-> v, next |-> next]
IsPunct(toks, i, c) == i <= Len(toks) /\ toks[i] = Punct(c)

RECURSIVE ParseValue(_, _), ParseElements(_, _, _), ParseMembers(_, _, _)
ParseValue(toks, i) ==
    IF i > Len(toks) THEN NoParse
    ELSE LET tok == toks[i] IN
         CASE tok.k = "string" -> Parsed(JStr(tok.s), i + 1)
           [] tok.k = "number" ->
                 Parsed(JNum(CHOOSE n \in 0..MaxInt : ToString(n) = tok.s), i + 1)
           [] tok.k = "literal" ->
                 Parsed(CASE tok.s = "true" -> JBool(TRUE)
                          [] tok.s = "false" -> JBool(FALSE)
                          [] OTHER -> JNull, i + 1)
           [] tok = Punct("[") ->
                 IF IsPunct(toks, i + 1, "]") THEN Parsed(JList(<<>>), i + 2)
                 ELSE ParseElements(toks, i + 1, <<>>)
           [] tok = Punct("{") ->
                 IF IsPunct(toks, i + 1, "}") THEN Parsed(JDict(<<>>), i + 2)
                 ELSE ParseMembers(toks, i + 1, <<>>)
           [] OTHER -> NoParse

ParseElements(toks, i, acc) ==
    LET r == ParseValue(toks, i) IN
    IF ~r.ok THEN NoParse
    ELSE IF IsPunct(toks, r.next, ",") THEN ParseElements(toks, r.next + 1, Append(acc, r.v))
    ELSE IF IsPunct(toks, r.next, "]") THEN Parsed(JList(Append(acc, r.v)), r.next + 1)
    ELSE NoParse

ParseMembers(toks, i, acc) ==
    IF ~(i + 1 <= Len(toks) /\ toks[i].k = "string" /\ toks[i + 1] = Punct(":"))
    THEN NoParse
    ELSE LET r == ParseValue(toks, i + 2) IN
         IF ~r.ok THEN NoParse
         ELSE IF IsPunct(toks, r.next, ",")
              THEN ParseMembers(toks, r.next + 1, Append(acc, <<toks[i].s, r.v>>))
         ELSE IF IsPunct(toks, r.next, "}")
              THEN Parsed(JDict(Append(acc, <<toks[i].s, r.v>>)), r.next + 1)
         ELSE NoParse

json_loads(toks) ==
    LET r == ParseValue(toks, 1) IN
    IF r.ok /\ r.next = Len(toks) + 1 THEN r.v ELSE JSONDecodeError

\* f"{result}" of a dict: Python's repr of it, which is not JSON
PyRepr(v) == [k |-> "repr", v |-> v]

\* result.get("success") is true
SuccessFlag(result) == DictGetOr(result, "success", JNull) = JBool(TRUE)

(***************************************************************************)
(* get_blocks_chunk on a decoded payload                                   *)
(***************************************************************************)
\* handlers/blocks.py handle_get_blocks_chunk, after the client returned result
handle_get_blocks_chunk_text(result) ==
    IF SuccessFlag(result)
    THEN json_dumps(result)
    ELSE <<Prose(CrossMark), Prose(" Failed to get blocks: "), PyRepr(result)>>

\* minecraft_mcp.py get_blocks_chunk: block_id of one cell
LegacyBlockId(block_data) ==
    IF block_data.t = "dict"
    THEN DictGetOr(block_data, "blockName", JStr("unknown")).s
    ELSE IF block_data.t = "null" THEN "None" ELSE block_data.s

\* the cells in the order of the three nested loops
LegacyCells(blocks) ==
    ConcatAll([x \in DOMAIN blocks.items |->
        ConcatAll([y \in DOMAIN blocks.items[x].items |->
            blocks.items[x].items[y].items])])

\* the keys of block_counts, in the order they were first inserted
RECURSIVE FirstOccurrences(_, _)
FirstOccurrences(ids, seen) ==
    IF ids = <<>> THEN <<>>
    ELSE IF Head(ids) \in seen THEN FirstOccurrences(Tail(ids), seen)
    ELSE <<Head(ids)>> \o FirstOccurrences(Tail(ids), seen \cup {Head(ids)})

CountOf(ids, id) == Cardinality({ i \in DOMAIN ids : ids[i] = id })

\* sorted(block_counts.items(), key=count, reverse=True): stable
RECURSIVE SortedByCount(_, _)
SortedByCount(keys, ids) ==
    IF keys = <<>> THEN <<>>
    ELSE LET most == CHOOSE i \in DOMAIN keys :
                        /\ \A j \in DOMAIN keys : CountOf(ids, keys[j]) <= CountOf(ids, keys[i])
                        /\ \A j \in 1..(i - 1) : CountOf(ids, keys[j]) < CountOf(ids, keys[i])
         IN  <<keys[most]>>
             \o SortedByCount([j \in 1..(Len(keys) - 1) |->
                                  IF j < most THEN keys[j] ELSE keys[j + 1]], ids)

\* f"{(count / total) * 100:.1f}"; no input here has a percentage that lies
\* halfway between two tenths
PercentText(count, total) ==
    LET tenths == (2000 * count + total) \div (2 * total)
    IN  ToString(tenths \div 10) \o "." \o ToString(tenths % 10)

\* minecraft_mcp.py get_blocks_chunk, after response.json() returned result
legacy_get_blocks_chunk_text(size_x, size_y, size_z, result) ==
    IF ~SuccessFlag(result)
    THEN <<Prose(CrossMark), Prose(" Failed to get blocks: "), PyRepr(result)>>
    ELSE IF ~DictHas(result, "blocks")
    THEN <<Prose("Error connecting to Minecraft API: "), Prose("'blocks'")>>
    ELSE IF ~DictHas(result, "world")
    THEN <<Prose("Error connecting to Minecraft API: "), Prose("'world'")>>
    ELSE LET cells == LegacyCells(DictGet(result, "blocks"))
             ids == [i \in DOMAIN cells |-> LegacyBlockId(cells[i])]
             keys == SortedByCount(FirstOccurrences(ids, {}), ids)
         IN  <<Prose("**Chunk Data ("), Prose(ToString(size_x)), Prose("x"),
               Prose(ToString(size_y)), Prose("x"), Prose(ToString(size_z)),
               Prose(" blocks):**"),
               Prose("World: "), Prose(DictGet(result, "world").s),
               Prose("Start Position: "), Prose("**Block Composition:**")>>
             \o ConcatAll([i \in DOMAIN keys |->
                   <<Prose("- "), Prose(keys[i]), Prose(": "),
                     Prose(ToString(CountOf(ids, keys[i]))), Prose(" blocks ("),
                     Prose(PercentText(CountOf(ids, keys[i]), size_x * size_y * size_z)),
                     Prose("%)")>>])

\* the cells of a chunk: two kinds of block and a null
BlockValues ==
    { JDict(<< <<"blockName", JStr("minecraft:stone")>> >>),
      JDict(<< <<"blockName", JStr("minecraft:dirt")>> >>),
      JNull }

\* the chunks of size_x by 1 by size_z
ChunkGrids(size_x, size_z) ==
    { JList([x \in 1..size_x |-> JList(<< JList([z \in 1..size_z |-> g[x][z]]) >>)]) :
        g \in [1..size_x -> [1..size_z -> BlockValues]] }

\* the bodies the remote server answers a chunk request with
ChunkPayloads(size_x, size_z) ==
    { JDict(<< <<"success", JBool(ok)>> >>
            \o (IF world THEN << <<"world", JStr("minecraft:overworld")>> >> ELSE <<>>)
            \o << <<"blocks", grid>> >>
            \o (IF extra THEN << <<"total_blocks", JNum(size_x * size_z)>> >> ELSE <<>>)) :
        ok \in BOOLEAN, world \in BOOLEAN, extra \in BOOLEAN,
        grid \in ChunkGrids(size_x, size_z) }

\* get_blocks_chunk of both implementations on the same arguments and payload
GetBlocksChunk ==
    /\ fn_called = None
    /\ \E size_x \in 1..MaxChunkSide, size_z \in 1..MaxChunkSide :
         \E result \in ChunkPayloads(size_x, size_z) :
            /\ fn_called' = "get_blocks_chunk"
            /\ fn_args' = [size_x |-> size_x, size_y |-> 1, size_z |-> size_z,
                           payload |-> result]
            /\ fn_result' =
                   [package |-> CallToolResult(handle_get_blocks_chunk_text(result)),
                    script |-> CallToolResult(
                                  legacy_get_blocks_chunk_text(size_x, 1, size_z, result))]
    /\ UNCHANGED <<import_state, server, listed, call_vars, yaw_vars, conc_vars>>

NextChunk == GetBlocksChunk

SpecChunk == Init /\ [][NextChunk]_vars

\* C24: get_blocks_chunk on a payload with success true returns one text
\* block that is the JSON serialisation of the whole payload: parsing the
\* text back gives exactly the payload received, in both implementations
C24_ChunkTextIsPayload ==
    fn_called = "get_blocks_chunk" /\ SuccessFlag(fn_args.payload) =>
        /\ Len(fn_result.package) = 1
        /\ json_loads(fn_result.package[1].text) = fn_args.payload
        /\ Len(fn_result.script) = 1
        /\ json_loads(fn_result.script[1].text) = fn_args.payload


(***************************************************************************)
(* get_heightmap on a decoded payload                                      *)
(***************************************************************************)
\* bool(value) of a decoded value
JTruthy(v) ==
    CASE v.t = "null" -> FALSE
      [] v.t = "bool" -> v.b
      [] v.t = "int" -> v.n # 0
      [] v.t = "str" -> v.s # ""
      [] v.t = "list" -> v.items # <<>>
      [] v.t = "dict" -> v.pairs # <<>>

\* a or b
JOr(a, b) == IF JTruthy(a) THEN a ELSE b

\* f"{value}" of a number, a string or None
PyStr(v) ==
    CASE v.t = "int" -> ToString(v.n)
      [] v.t = "str" -> v.s
      [] OTHER -> "None"

RECURSIVE SumSeq(_)
SumSeq(xs) == IF xs = <<>> THEN 0 ELSE Head(xs) + SumSeq(Tail(xs))

MinSeq(xs) == CHOOSE m \in Range(xs) : \A v \in Range(xs) : m <= v
MaxSeq(xs) == CHOOSE m \in Range(xs) : \A v \in Range(xs) : v <= m

\* f"{num / den:.1f}" of non-negative integers: the quotient is rounded to
\* the nearest tenth, a quotient halfway between two tenths to the even one
\* (on the inputs here such a quotient is an odd number of quarters, which a
\* float holds exactly)
Format1f(num, den) ==
    LET twice == (20 * num) \div den
        exact == (20 * num) % den = 0
        down == twice \div 2
        tenths == IF twice % 2 = 0 THEN down
                  ELSE IF exact THEN (IF down % 2 = 0 THEN down ELSE down + 1)
                  ELSE down + 1
    IN  ToString(tenths \div 10) \o "." \o ToString(tenths % 10)

\* mutant of HeightStatistics: the statistics computed without the
\* `if all_heights` guards
HeightStatistics_unguarded(all_heights) ==
    IF all_heights = <<>>
    THEN [raised |-> TRUE, exc |-> "ValueError", msg |-> <<"min() arg is an empty sequence">>,
          min |-> JNull, max |-> JNull, avg |-> "n/a"]
    ELSE [raised |-> FALSE, exc |-> None, msg |-> <<>>,
          min |-> JNum(MinSeq(all_heights)), max |-> JNum(MaxSeq(all_heights)),
          avg |-> Format1f(SumSeq(all_heights), Len(all_heights))]

\* handlers/blocks.py handle_get_heightmap:
\*   min_height = min(all_heights) if all_heights else None
\*   max_height = max(all_heights) if all_heights else None
\*   avg_height = (sum(all_heights) / len(all_heights)) if all_heights else None
\* with the average as the last line of the text formats it
HeightStatistics(all_heights) ==
    IF all_heights = <<>>
    THEN [raised |-> FALSE, exc |-> None, msg |-> <<>>,
          min |-> JNull, max |-> JNull, avg |-> "n/a"]
    ELSE [raised |-> FALSE, exc |-> None, msg |-> <<>>,
          min |-> JNum(MinSeq(all_heights)), max |-> JNum(MaxSeq(all_heights)),
          avg |-> Format1f(SumSeq(all_heights), Len(all_heights))]

\* [h for row in heightmap for h in row]
FlatHeights(heightmap) ==
    ConcatAll([r \in DOMAIN heightmap.items |->
                  [c \in DOMAIN heightmap.items[r].items |-> heightmap.items[r].items[c].n]])

EmptyDict == JDict(<<>>)

\* handlers/blocks.py handle_get_heightmap, after the client returned result
handle_get_heightmap_text(x1, z1, x2, z2, heightmap_type, world, result) ==
    IF ~SuccessFlag(result)
    THEN <<Prose(CrossMark), Prose(" Failed to get heightmap: "), PyRepr(result)>>
    ELSE
    LET heightmap == JOr(JOr(DictGetOr(result, "heights", JNull),
                             DictGetOr(result, "heightmap", JNull)), JList(<<>>))
        size == JOr(DictGetOr(result, "size", JNull), EmptyDict)
        width == DictGetOr(size, "x", JNum(Len(heightmap.items)))
        length == DictGetOr(size, "z",
                      JNum(IF JTruthy(heightmap) THEN Len(heightmap.items[1].items) ELSE 0))
        stats == HeightStatistics(FlatHeights(heightmap))
        area_bounds == DictGetOr(result, "area_bounds", JNull)
        min_bounds == DictGetOr(area_bounds, "min", EmptyDict)
        max_bounds == DictGetOr(area_bounds, "max", EmptyDict)
        height_range == JOr(DictGetOr(result, "height_range", JNull), EmptyDict)
        range_min == DictGetOr(height_range, "min", stats.min)
        range_max == DictGetOr(height_range, "max", stats.max)
    IN
    IF stats.raised
    THEN <<Prose("Error "), Prose("getting heightmap"), Prose(": ")>>
         \o [i \in DOMAIN stats.msg |-> Prose(stats.msg[i])]
    ELSE
       <<Prose("**Heightmap Data ("), Prose(PyStr(width)), Prose("x"), Prose(PyStr(length)),
         Prose("):**"),
         Prose("World: "), Prose(PyStr(DictGetOr(result, "world", world))),
         Prose("Type: "), Prose(PyStr(DictGetOr(result, "heightmap_type", heightmap_type))),
         Prose("Area: from (")>>
       \o (IF JTruthy(area_bounds)
           THEN <<Prose(PyStr(DictGetOr(min_bounds, "x", JNull))), Prose(", "),
                  Prose(PyStr(DictGetOr(min_bounds, "z", JNull))), Prose(") to ("),
                  Prose(PyStr(DictGetOr(max_bounds, "x", JNull))), Prose(", "),
                  Prose(PyStr(DictGetOr(max_bounds, "z", JNull))), Prose(")")>>
           ELSE <<Prose(PyStr(x1)), Prose(", "), Prose(PyStr(z1)), Prose(") to ("),
                  Prose(PyStr(x2)), Prose(", "), Prose(PyStr(z2)), Prose(")")>>)
       \o <<Prose("**Height Statistics:**"),
            Prose("- Minimum: "),
            Prose(IF range_min # JNull THEN PyStr(range_min) ELSE "n/a"),
            Prose("- Maximum: "),
            Prose(IF range_max # JNull THEN PyStr(range_max) ELSE "n/a"),
            Prose("- Average: "), Prose(stats.avg)>>

\* minecraft_mcp.py get_heightmap: the first key of result[...] that is
\* missing, in the order the method subscripts them
LegacyHeightmapKeys ==
    <<"area_bounds", "size", "height_range", "heights", "world", "heightmap_type">>

LegacyMissingKey(result) ==
    LET missing == { i \in DOMAIN LegacyHeightmapKeys :
                        ~DictHas(result, LegacyHeightmapKeys[i]) }
    IN  IF missing = {} THEN None
        ELSE LegacyHeightmapKeys[CHOOSE i \in missing : \A j \in missing : i <= j]

Abs(n) == IF n < 0 THEN -n ELSE n
Max2(a, b) == IF a < b THEN b ELSE a

\* minecraft_mcp.py get_heightmap, the terrain analysis: the cells (x, z) of
\* the first size_x - 1 rows and size_z - 1 columns, by the larger difference
\* to the cell to the right and the cell below
LegacySlopes(h, sx, sz) ==
    LET cells == (0..(sx - 2)) \X (0..(sz - 2))
        diff(c) == Max2(Abs(h[c[1] + 2][c[2] + 1] - h[c[1] + 1][c[2] + 1]),
                        Abs(h[c[1] + 1][c[2] + 2] - h[c[1] + 1][c[2] + 1]))
    IN  [analyzed |-> Cardinality(cells),
         flat |-> Cardinality({ c \in cells : diff(c) <= 1 }),
         steep |-> Cardinality({ c \in cells : diff(c) >= 3 })]

\* minecraft_mcp.py get_heightmap, after response.json() returned result; the
\* payloads it is evaluated on carry a size that is the size of the grid
legacy_get_heightmap_text(result) ==
    IF ~SuccessFlag(result)
    THEN <<Prose(CrossMark), Prose(" Failed to get heightmap: "), PyRepr(result)>>
    ELSE IF LegacyMissingKey(result) # None
    THEN <<Prose("Error connecting to Minecraft API: "),
           Prose("'" \o LegacyMissingKey(result) \o "'")>>
    ELSE
    LET bounds == DictGet(result, "area_bounds")
        sx == DictGet(DictGet(result, "size"), "x").n
        sz == DictGet(DictGet(result, "size"), "z").n
        lo == DictGet(DictGet(result, "height_range"), "min").n
        hi == DictGet(DictGet(result, "height_range"), "max").n
        heights == DictGet(result, "heights")
        h == [x \in DOMAIN heights.items |->
                 [z \in DOMAIN heights.items[x].items |-> heights.items[x].items[z].n]]
        slopes == LegacySlopes(h, sx, sz)
    IN
       <<Prose("**Heightmap Analysis ("), Prose(ToString(sx)), Prose("x"), Prose(ToString(sz)),
         Prose(" area):**"),
         Prose("Area: ("), Prose(PyStr(DictGet(DictGet(bounds, "min"), "x"))), Prose(", "),
         Prose(PyStr(DictGet(DictGet(bounds, "min"), "z"))), Prose(") to ("),
         Prose(PyStr(DictGet(DictGet(bounds, "max"), "x"))), Prose(", "),
         Prose(PyStr(DictGet(DictGet(bounds, "max"), "z"))), Prose(")"),
         Prose("World: "), Prose(PyStr(DictGet(result, "world"))),
         Prose("Heightmap Type: "), Prose(PyStr(DictGet(result, "heightmap_type"))),
         Prose("Height Range: "), Prose(ToString(lo)), Prose(" to "), Prose(ToString(hi)),
         Prose(" blocks"),
         Prose("Elevation Difference: "), Prose(ToString(hi - lo)), Prose(" blocks")>>
       \o (IF sx > 1 /\ sz > 1
           THEN <<Prose("**Terrain Analysis:**"),
                  Prose("- Flat areas: "),
                  Prose(PercentText(slopes.flat, slopes.analyzed)), Prose("%"),
                  Prose("- Steep areas: "),
                  Prose(PercentText(slopes.steep, slopes.analyzed)), Prose("%"),
                  Prose("- Moderate slopes: "),
                  Prose(PercentText(slopes.analyzed - slopes.flat - slopes.steep,
                                    slopes.analyzed)), Prose("%")>>
           ELSE <<>>)
       \o (IF sx <= 20 /\ sz <= 20
           THEN <<Prose("**Height Grid:**")>>
                \o ConcatAll([z \in 1..sz |-> [x \in 1..sx |-> Prose(ToString(h[x][z]))]])
           ELSE <<Prose("Area too large to display height grid")>>)
       \o <<Prose("**Building Recommendation:** "),
            Prose(IF hi - lo <= 2 THEN CheckMark
                  ELSE IF hi - lo <= 5 THEN CheckMark
                  ELSE IF hi - lo <= 10 THEN WarnMark
                  ELSE CrossMark)>>

\* the elevations of a grid
HeightValues == { 62, 65 }

\* the sides of the grids
MaxGridSide == 2

\* the grids: none, one empty row, and every grid of 1 or 2 rows of 1 or 2
\* cells
HeightGrids ==
    { JList(<<>>), JList(<< JList(<<>>) >>) }
    \cup UNION { { JList([x \in 1..sx |-> JList([z \in 1..sz |-> JNum(g[x][z])])]) :
                     g \in [1..sx -> [1..sz -> HeightValues]] } :
                 sx \in 1..MaxGridSide, sz \in 1..MaxGridSide }

GridWidth(grid) == Len(grid.items)
GridLength(grid) == IF grid.items = <<>> THEN 0 ELSE Len(grid.items[1].items)

\* the bodies the remote server answers a heightmap request with. key is
\* the field the grid is under, or None for a body without a grid; full is
\* the body of the remote server that also gives world, heightmap_type, size
\* and area_bounds; range is "none", "grid" for a height_range that is the
\* range of the grid (of a flat world when the grid is empty), or "world"
\* for one that is the build limits of the world
HeightmapPayload(key, grid, full, range) ==
    LET flat == FlatHeights(grid)
        lo == IF range = "world" THEN 0 ELSE IF flat = <<>> THEN 64 ELSE MinSeq(flat)
        hi == IF range = "world" THEN 255 ELSE IF flat = <<>> THEN 64 ELSE MaxSeq(flat)
    IN
    JDict(<< <<"success", JBool(TRUE)>> >>
          \o (IF full
              THEN << <<"world", JStr("minecraft:overworld")>>,
                      <<"heightmap_type", JStr("WORLD_SURFACE")>>,
                      <<"size", JDict(<< <<"x", JNum(GridWidth(grid))>>,
                                         <<"z", JNum(GridLength(grid))>> >>)>>,
                      <<"area_bounds",
                        JDict(<< <<"min", JDict(<< <<"x", JNum(10)>>, <<"z", JNum(20)>> >>)>>,
                                 <<"max", JDict(<< <<"x", JNum(11)>>, <<"z", JNum(21)>> >>)>> >>)>> >>
              ELSE <<>>)
          \o (IF range = "none" THEN <<>>
              ELSE << <<"height_range",
                        JDict(<< <<"min", JNum(lo)>>, <<"max", JNum(hi)>> >>)>> >>)
          \o (IF key = None THEN <<>> ELSE << <<key, grid>> >>))

HeightmapPayloads ==
    { HeightmapPayload(key, grid, full, range) :
        key \in { "heights", "heightmap", None }, grid \in HeightGrids,
        full \in BOOLEAN, range \in { "none", "grid", "world" } }
    \cup { JDict(<< <<"success", JBool(FALSE)>> >>) }

\* get_heightmap of both implementations on the same arguments and payload:
\* the corners are given from the far one to the near one
GetHeightmap ==
    /\ fn_called = None
    /\ \E result \in HeightmapPayloads, world \in { JNull, JStr("minecraft:the_nether") } :
         /\ fn_called' = "get_heightmap"
         /\ fn_args' = [x1 |-> 11, z1 |-> 21, x2 |-> 10, z2 |-> 20, world |-> world,
                        payload |-> result]
         /\ fn_result' =
                [package |-> CallToolResult(
                                handle_get_heightmap_text(JNum(11), JNum(21), JNum(10), JNum(20),
                                                          JStr("WORLD_SURFACE"), world, result)),
                 script |-> CallToolResult(legacy_get_heightmap_text(result))]
    /\ UNCHANGED <<import_state, server, listed, call_vars, yaw_vars, conc_vars>>

NextHeightmap == GetHeightmap

SpecHeightmap == Init /\ [][NextHeightmap]_vars

\* the piece of the text that follows the label, n pieces after it
NoPiece == "<no such line>"
Reported(text, label, n) ==
    IF \E i \in DOMAIN text : text[i] = Prose(label) /\ i + n <= Len(text)
    THEN text[(CHOOSE i \in DOMAIN text : text[i] = Prose(label) /\ i + n <= Len(text)) + n].s
    ELSE NoPiece

\* the grid of a payload, under either name
C25_Grid ==
    JOr(JOr(DictGetOr(fn_args.payload, "heights", JNull),
            DictGetOr(fn_args.payload, "heightmap", JNull)), JList(<<>>))

\* the text reports the statistics of the grid and the area
C25_Reports(text) ==
    LET flat == FlatHeights(C25_Grid) IN
    /\ Reported(text, "- Minimum: ", 1) = ToString(MinSeq(flat))
    /\ Reported(text, "- Maximum: ", 1) = ToString(MaxSeq(flat))
    /\ Reported(text, "- Average: ", 1) = Format1f(SumSeq(flat), Len(flat))
    /\ IF DictHas(fn_args.payload, "area_bounds")
       THEN /\ Reported(text, "Area: from (", 1) = "10"
            /\ Reported(text, "Area: from (", 3) = "20"
            /\ Reported(text, "Area: from (", 5) = "11"
            /\ Reported(text, "Area: from (", 7) = "21"
       ELSE /\ Reported(text, "Area: from (", 1) = ToString(fn_args.x1)
            /\ Reported(text, "Area: from (", 3) = ToString(fn_args.z1)
            /\ Reported(text, "Area: from (", 5) = ToString(fn_args.x2)
            /\ Reported(text, "Area: from (", 7) = ToString(fn_args.z2)

\* C25: get_heightmap on success reports Minimum, Maximum and Average equal
\* to the minimum, maximum and mean of the flattened grid, whether the grid
\* is under heights or heightmap, and the area of area_bounds when present
\* and of the call's x1, z1, x2, z2 otherwise, in both implementations
C25_HeightStatisticsOfGrid ==
    /\ fn_called = "get_heightmap"
    /\ SuccessFlag(fn_args.payload)
    /\ FlatHeights(C25_Grid) # <<>>
    => C25_Reports(fn_result.package[1].text) /\ C25_Reports(fn_result.script[1].text)


(***************************************************************************)
(* spawn_entity: the coordinates in the request body and in the result     *)
(***************************************************************************)
\* the coordinates are floats that are multiples of 1/4, which a float holds
\* exactly: JFloat(q) is q/4
MaxQuarter == 5
JFloat(q) == [t |-> "float", q |-> q]
Coordinates == { JFloat(q) : q \in -MaxQuarter..MaxQuarter }

\* f"{value:.1f}" of a coordinate
FormatCoordinate1f(c) ==
    IF c.q < 0 THEN "-" \o Format1f(-c.q, 4) ELSE Format1f(c.q, 4)

\* utils/formatting.py format_coordinate(x, y, z), precision 1
format_coordinate(x, y, z) ==
    <<Prose("("), Prose(FormatCoordinate1f(x)), Prose(", "), Prose(FormatCoordinate1f(y)),
      Prose(", "), Prose(FormatCoordinate1f(z)), Prose(")")>>

\* utils/formatting.py format_success_with_position
format_success_with_position(operation, entity_type, position, extra_info) ==
    <<Prose(CheckMark), Prose(" Successfully "), Prose(operation), Prose(" "),
      Prose(entity_type), Prose(" at ")>>
    \o format_coordinate(DictGet(position, "x"), DictGet(position, "y"), DictGet(position, "z"))
    \o (IF extra_info # <<>> THEN extra_info ELSE <<>>)

\* client/minecraft_api.py spawn_entity: the JSON body of the request
spawn_entity_body(entity_type, x, y, z, world) ==
    JDict(<< <<"type", entity_type>>, <<"x", x>>, <<"y", y>>, <<"z", z>> >>
          \o (IF JTruthy(world) THEN << <<"world", world>> >> ELSE <<>>))

\* the first of the keys that result lacks, None when it has them all
FirstMissing(result, keys) ==
    LET missing == { i \in DOMAIN keys : ~DictHas(result, keys[i]) }
    IN  IF missing = {} THEN None
        ELSE keys[CHOOSE i \in missing : \A j \in missing : i <= j]

\* handlers/world.py handle_spawn_entity, after the client returned result
handle_spawn_entity_text(result) ==
    IF ~SuccessFlag(result)
    THEN <<Prose(CrossMark), Prose(" Failed to spawn entity: "), PyRepr(result)>>
    ELSE IF FirstMissing(result, <<"uuid", "type", "position">>) # None
    THEN <<Prose("Error "), Prose("spawning entity"), Prose(": "),
           Prose("'" \o FirstMissing(result, <<"uuid", "type", "position">>) \o "'")>>
    ELSE format_success_with_position(
             "spawned", DictGet(result, "type").s, DictGet(result, "position"),
             <<Prose("Entity UUID: "), Prose(DictGet(result, "uuid").s)>>)

\* the remote server's answers to a spawn request with the given body: the
\* entity spawned and the position echoed, a bare success, a failure
SpawnAnswers == { "echo", "bare", "failure" }

SpawnPayload(body, answer) ==
    CASE answer = "echo" ->
            JDict(<< <<"success", JBool(TRUE)>>,
                     <<"uuid", JStr("uuid-1")>>,
                     <<"type", DictGet(body, "type")>>,
                     <<"position", JDict(<< <<"x", DictGet(body, "x")>>,
                                            <<"y", DictGet(body, "y")>>,
                                            <<"z", DictGet(body, "z")>> >>)>> >>)
      [] answer = "bare" -> JDict(<< <<"success", JBool(TRUE)>> >>)
      [] OTHER -> JDict(<< <<"success", JBool(FALSE)>>, <<"error", JStr("out of bounds")>> >>)

\* spawn_entity of the package on its arguments and the remote's answer
SpawnEntity ==
    /\ fn_called = None
    /\ \E x \in Coordinates, y \in Coordinates, z \in Coordinates,
          world \in { JNull, JStr("minecraft:the_nether") }, answer \in SpawnAnswers :
         LET body == spawn_entity_body(JStr("minecraft:zombie"), x, y, z, world)
             result == SpawnPayload(body, answer)
         IN  /\ fn_called' = "spawn_entity"
             /\ fn_args' = [x |-> x, y |-> y, z |-> z, world |-> world,
                            answer |-> answer, payload |-> result]
             /\ fn_result' = [body |-> body,
                              package |-> CallToolResult(handle_spawn_entity_text(result))]
    /\ UNCHANGED <<import_state, server, listed, call_vars, yaw_vars, conc_vars>>

NextSpawn == SpawnEntity

SpecSpawn == Init /\ [][NextSpawn]_vars

\* the text of a number of tenths, d.d or -d.d
C26_TenthsText(t) ==
    (IF t < 0 THEN "-" ELSE "") \o ToString(Abs(t) \div 10) \o "." \o ToString(Abs(t) % 10)

\* the text piece denotes the number that coordinate c is: t/10 = c.q/4
C26_Denotes(piece, c) ==
    \E t \in -(3 * MaxQuarter)..(3 * MaxQuarter) :
        C26_TenthsText(t) = piece /\ 4 * t = 10 * c.q

\* C26: the x, y, z of the request body are the x, y, z of the invocation,
\* and when the remote response echoes the position the coordinates reported
\* in the result are the original x, y, z
C26_CoordinatesUnchanged ==
    fn_called = "spawn_entity" =>
        /\ DictGet(fn_result.body, "x") = fn_args.x
        /\ DictGet(fn_result.body, "y") = fn_args.y
        /\ DictGet(fn_result.body, "z") = fn_args.z
        /\ fn_args.answer = "echo" =>
              /\ C26_Denotes(Reported(fn_result.package[1].text, " at ", 2), fn_args.x)
              /\ C26_Denotes(Reported(fn_result.package[1].text, " at ", 4), fn_args.y)
              /\ C26_Denotes(Reported(fn_result.package[1].text, " at ", 6), fn_args.z)


(***************************************************************************)
(* safe_url and the line logged at server start                            *)
(***************************************************************************)
\* a URL string as the sequence of its pieces, e.g.
\* <<"http", "://", "user", ":", "pass", "@", "localhost", ":", "7070", "/api">>
UrlText(scheme, username, password, host, port, path) ==
    <<scheme, "://">>
    \o (IF username = None /\ password = None THEN <<>>
        ELSE (IF username = None THEN <<>> ELSE <<username>>)
             \o (IF password = None THEN <<>> ELSE <<":", password>>)
             \o <<"@">>)
    \o <<host>>
    \o (IF port = None THEN <<>> ELSE <<":", port>>)
    \o (IF path = None THEN <<>> ELSE <<path>>)

\* httpx.URL(url): the components of the string
ParseUrl(url) ==
    LET at == IF \E i \in DOMAIN url : url[i] = "@"
              THEN CHOOSE i \in DOMAIN url : url[i] = "@" ELSE 2
        userinfo == SubSeq(url, 3, at - 1)
        rest == SubSeq(url, at + 1, Len(url))
        ported == Len(rest) >= 3 /\ rest[2] = ":"
    IN  [scheme |-> url[1],
         username |-> IF userinfo # <<>> /\ userinfo[1] # ":" THEN userinfo[1] ELSE None,
         password |-> IF Len(userinfo) >= 2 /\ userinfo[Len(userinfo) - 1] = ":"
                      THEN userinfo[Len(userinfo)] ELSE None,
         host |-> rest[1],
         port |-> IF ported THEN rest[3] ELSE None,
         path |-> IF Len(rest) > (IF ported THEN 3 ELSE 1) THEN rest[Len(rest)] ELSE None]

\* the port a scheme implies
DefaultPort(scheme) == IF scheme = "https" THEN "443" ELSE "80"

\* the port requests to the URL go to
EffectivePort(u) == IF u.port = None THEN DefaultPort(u.scheme) ELSE u.port

\* mutant of safe_url: the URL as it was given
safe_url_unredacted(url, keeps_username, drops_default_port) == url

\* utils/helpers.py and minecraft_mcp.py safe_url:
\*   str(httpx.URL(url).copy_with(password="****"))
\* httpx is not part of the repository; what is left to its version is a
\* choice: whether copy_with(password=...) keeps the username of the URL,
\* and whether a port that is the default of the scheme is written
safe_url(url, keeps_username, drops_default_port) ==
    LET u == ParseUrl(url) IN
    UrlText(u.scheme,
            IF keeps_username THEN u.username ELSE None,
            "****",
            u.host,
            IF drops_default_port /\ u.port = DefaultPort(u.scheme) THEN None ELSE u.port,
            u.path)

\* server.py and minecraft_mcp.py MinecraftMCPServer.__init__: the line
\* printed to stderr
InitLogLine(api_base, keeps_username, drops_default_port) ==
    <<"Initialized server with API base: ">>
    \o safe_url(api_base, keeps_username, drops_default_port)

\* the base URLs of the configuration
Passwords == { "pass", "s3cret", "hunter2" }
BaseUrls ==
    { UrlText(scheme, username, password, host, port, path) :
        scheme \in { "http", "https" },
        username \in { None, "user", "admin" },
        password \in Passwords \cup { None },
        host \in { "localhost", "mc.example.org" },
        port \in { None, "80", "443", "7070" },
        path \in { None, "/api" } }

\* the server is constructed with a base URL and logs it
LogBaseUrl ==
    /\ fn_called = None
    /\ \E api_base \in BaseUrls, keeps_username \in BOOLEAN, drops_default_port \in BOOLEAN :
         /\ fn_called' = "safe_url"
         /\ fn_args' = [url |-> api_base, keeps_username |-> keeps_username,
                        drops_default_port |-> drops_default_port]
         /\ fn_result' =
                [url |-> safe_url(api_base, keeps_username, drops_default_port),
                 log |-> InitLogLine(api_base, keeps_username, drops_default_port)]
    /\ UNCHANGED <<import_state, server, listed, call_vars, yaw_vars, conc_vars>>

NextUrl == LogBaseUrl

SpecUrl == Init /\ [][NextUrl]_vars

\* the URL given, with another password
C27_OtherPassword ==
    LET u == ParseUrl(fn_args.url)
    IN  UrlText(u.scheme, u.username,
                CHOOSE p \in Passwords : p # u.password, u.host, u.port, u.path)

\* C27: for a base URL with an embedded password, safe_url returns a string
\* that has "****" in the place of the password, keeps host and port, and is
\* the same for a URL that differs only in its password; the line logged at
\* server start carries the URL in this form only
C27_SafeUrlRedacts ==
    fn_called = "safe_url" /\ ParseUrl(fn_args.url).password # None =>
        /\ ParseUrl(fn_result.url).password = "****"
        /\ ParseUrl(fn_result.url).host = ParseUrl(fn_args.url).host
        /\ EffectivePort(ParseUrl(fn_result.url)) = EffectivePort(ParseUrl(fn_args.url))
        /\ fn_result.url =
               safe_url(C27_OtherPassword, fn_args.keeps_username, fn_args.drops_default_port)
        /\ fn_result.log = <<"Initialized server with API base: ">> \o fn_result.url
        /\ ParseUrl(fn_args.url).password \notin Range(fn_result.log)

\* a URL with user, password, host, port and path was logged
C27_Witness ==
    /\ fn_called = "safe_url"
    /\ fn_args.url = UrlText("http", "user", "hunter2", "localhost", "7070", "/api")
    /\ fn_args.keeps_username
    /\ fn_result.url = UrlText("http", "user", "****", "localhost", "7070", "/api")


\* C28: an invocation of a registered tool that omits an argument its handler
\* requires fails when the arguments are bound: it returns one text block
\* that reports the error, and no HTTP request is issued
C28_MissingArgumentFailsAtBinding ==
    /\ InFlight
    /\ last_call.impl = "package"
    /\ get_handler(last_call.name) # None
    /\ Required(get_handler(last_call.name)) \ DOMAIN last_call.arguments # {}
    => /\ last_http = <<>>
       /\ ~propagated
       /\ Len(last_result) = 1
       /\ last_result[1].type = "text"
       /\ last_result[1].text[1] = "Error: "

\* fill_box without block_type, against a remote server that would succeed
C28_Witness ==
    /\ InFlight
    /\ last_call.impl = "package"
    /\ last_call.name = "fill_box"
    /\ DOMAIN last_call.arguments = {"x1", "y1", "z1", "x2", "y2", "z2"}
    /\ last_call.remote = "success"
    /\ last_http = <<>>
    /\ IsFailure(last_result)


\* the payload has no grid, or one without a cell
C29_NoHeights == FlatHeights(C25_Grid) = <<>>

\* C29: on a success payload without heights/heightmap or with an empty
\* grid the handler returns the success form, never an error: Average is
\* 'n/a', and Minimum and Maximum are 'n/a' unless the payload supplies
\* height_range, whose min and max are reported then
C29_EmptyGridReportsNA ==
    fn_called = "get_heightmap" /\ SuccessFlag(fn_args.payload) /\ C29_NoHeights =>
        LET text == fn_result.package[1].text
            range == DictGetOr(fn_args.payload, "height_range", JNull)
        IN  /\ Len(fn_result.package) = 1
            /\ text[1] = Prose("**Heightmap Data (")
            /\ Reported(text, "- Average: ", 1) = "n/a"
            /\ Reported(text, "- Minimum: ", 1) =
                   (IF range = JNull THEN "n/a" ELSE PyStr(DictGet(range, "min")))
            /\ Reported(text, "- Maximum: ", 1) =
                   (IF range = JNull THEN "n/a" ELSE PyStr(DictGet(range, "max")))

\* a payload with no grid and no height_range, and one with an empty row
C29_Witness ==
    /\ fn_called = "get_heightmap"
    /\ SuccessFlag(fn_args.payload)
    /\ \/ ~DictHas(fn_args.payload, "heights") /\ ~DictHas(fn_args.payload, "heightmap")
       \/ DictGetOr(fn_args.payload, "heights", JNull) = JList(<< JList(<<>>) >>)
    /\ ~DictHas(fn_args.payload, "height_range")
    /\ Reported(fn_result.package[1].text, "- Average: ", 1) = "n/a"
    /\ Reported(fn_result.package[1].text, "- Minimum: ", 1) = "n/a"


(***************************************************************************)
(* format_list_with_limit and the listings that use it                     *)
(***************************************************************************)
\* the longest list and the largest limit the function is evaluated on
MaxLen == 4
MaxLimit == 4

\* the limit of the entity and block listings, and their longest list
ListingLimit == 20
MaxListed == 22

\* items[:limit]
SlicePrefix(items, limit) ==
    LET stop == IF limit >= 0 THEN limit ELSE Max2(Len(items) + limit, 0)
    IN  SubSeq(items, 1, IF stop < Len(items) THEN stop ELSE Len(items))

\* utils/formatting.py format_entity_info
format_entity_info(entity) ==
    DictGet(entity, "id").s \o " (" \o DictGet(entity, "display_name").s \o ")"

\* item_formatter(item): str when no formatter is given
ApplyFormatter(item_formatter, item) ==
    IF item_formatter = None THEN item ELSE format_entity_info(item)

\* mutant of format_list_with_limit: the overflow line also when the list
\* is exactly as long as the limit
format_list_with_limit_closed(items, limit, item_formatter) ==
    LET shown == SlicePrefix(items, limit) IN
    [i \in DOMAIN shown |-> <<"- ", ApplyFormatter(item_formatter, shown[i])>>]
    \o (IF Len(items) >= limit
        THEN << <<"... and ", ToString(Len(items) - limit), " more items">> >>
        ELSE <<>>)

\* utils/formatting.py format_list_with_limit: the lines of the string it
\* returns, each the pieces of its f-string
format_list_with_limit(items, limit, item_formatter) ==
    LET shown == SlicePrefix(items, limit) IN
    [i \in DOMAIN shown |-> <<"- ", ApplyFormatter(item_formatter, shown[i])>>]
    \o (IF Len(items) > limit
        THEN << <<"... and ", ToString(Len(items) - limit), " more items">> >>
        ELSE <<>>)

\* handlers/world.py handle_get_entities and handlers/blocks.py
\* handle_get_blocks, after the client returned the list result
handle_listing_text(tool, result) ==
    << <<IF tool = "get_entities" THEN "**Available Entity Types ("
         ELSE "**Available Block Types (", ToString(Len(result)), " total):**">> >>
    \o format_list_with_limit(result, ListingLimit, "format_entity_info")

\* the lists of at most n of the values
ListsUpTo(values, n) == UNION { [1..k -> values] : k \in 0..n }

\* the i-th entity or block type of the remote server's list
ListedType(i) ==
    JDict(<< <<"id", JStr("minecraft:type_" \o ToString(i))>>,
             <<"display_name", JStr("Type " \o ToString(i))>> >>)

\* format_list_with_limit on a list of strings and a limit, no formatter
FormatList ==
    /\ fn_called = None
    /\ \E items \in ListsUpTo({ "a", "b" }, MaxLen), limit \in 0..MaxLimit :
         /\ fn_called' = "format_list_with_limit"
         /\ fn_args' = [items |-> items, limit |-> limit, item_formatter |-> None]
         /\ fn_result' = [lines |-> format_list_with_limit(items, limit, None)]
    /\ UNCHANGED <<import_state, server, listed, call_vars, yaw_vars, conc_vars>>

\* get_entities or get_blocks on the list the remote server returned
ListTypes ==
    /\ fn_called = None
    /\ \E tool \in { "get_entities", "get_blocks" }, n \in 0..MaxListed :
         LET result == [i \in 1..n |-> ListedType(i)]
             text == handle_listing_text(tool, result)
         IN  /\ fn_called' = tool
             /\ fn_args' = [items |-> result, limit |-> ListingLimit,
                            item_formatter |-> "format_entity_info"]
             /\ fn_result' = [lines |-> Tail(text), header |-> Head(text)]
    /\ UNCHANGED <<import_state, server, listed, call_vars, yaw_vars, conc_vars>>

NextList == FormatList \/ ListTypes

SpecList == Init /\ [][NextList]_vars

\* min(len, limit)
C30_Shown == IF Len(fn_args.items) < fn_args.limit THEN Len(fn_args.items) ELSE fn_args.limit

====
